---- MODULE Spec2Model ----
(***************************************************************************)
(* A model of the mail-transfer client of phishing-simulator.              *)
(*                                                                         *)
(* One send request is followed from the call of its entry point to its    *)
(* return.  Three engines are modelled:                                    *)
(*   "Send"        Client.Send of the raw-protocol client (relay path),    *)
(*   "SendDirect"  Client.SendDirect and Client.sendToMX (direct path),    *)
(*   "LegacySend"  Client.Send of the net/smtp based client.               *)
(* Every action is one network interaction of the client (a dial, a        *)
(* command with its reply, the message write) together with the local      *)
(* code that runs up to the next interaction; an error return runs the     *)
(* deferred calls inside the same action.  The peer is nondeterministic:   *)
(* each reply is the code the client waits for, another code, or a failed  *)
(* read.                                                                   *)
(*                                                                         *)
(* Strings that the code takes apart (addresses) are sequences of tokens   *)
(* in which "@" is a token of its own; error values are sequences of       *)
(* strings, the empty sequence being nil.                                   *)
(***************************************************************************)
EXTENDS Naturals, Sequences, FiniteSets, TLC

\* Largest number of mail-exchanger records the resolver returns.
MaxMX == 3

Nil == <<>>

\* ------------------------------------------------------------------ inputs

AddrEnvelope == <<"envelope", "@", "relay.com">>
AddrSpoofed  == <<"spoofed", "@", "fake.org">>
Addrs == {AddrEnvelope, AddrSpoofed}
Names == {"Test Name", "Other Name"}
Recipients == {<<"bob", "@", "corp.example">>}
Subject == "Hello subject"
Body == "Hello"

MXHosts == <<"mx1.", "mx2.", "mx3.", "mx4.">>
Prefs == {10, 20}

\* What net.LookupMX answers for the recipient's domain: an error, or a list
\* of records (Host, Pref).
DNSError == [ok |-> FALSE, recs |-> <<>>]
DNSAnswer(recs) == [ok |-> TRUE, recs |-> recs]
MXLists(n) ==
  {[i \in 1..n |-> [Host |-> MXHosts[i], Pref |-> f[i]]] : f \in [1..n -> Prefs]}
\* every answer of up to MaxMX records
MXAnswers == {DNSError} \cup {DNSAnswer(l) : l \in UNION {MXLists(n) : n \in 0..MaxMX}}
\* the answers of at most one record
SingleAnswers == {a \in MXAnswers : Len(a.recs) <= 1}

BaseCfg ==
  [Host |-> "smtp.example.com", Port |-> "587",
   Username |-> "user", Password |-> "pass",
   EnvelopeSender |-> AddrEnvelope, SenderEmail |-> AddrSpoofed,
   SenderName |-> "Test Name",
   DKIMDomain |-> "", DKIMSelector |-> "", DKIMKeyPath |-> "",
   DirectMode |-> FALSE]

\* The configurations a request is run with: the identity fields, the
\* credentials and the signing fields are each varied over all their
\* combinations, the other fields keeping the values of BaseCfg.
IdentityCfgs ==
  {[BaseCfg EXCEPT !.EnvelopeSender = e, !.SenderEmail = s, !.SenderName = n] :
     e \in Addrs, s \in Addrs, n \in Names}
CredentialCfgs ==
  {[BaseCfg EXCEPT !.Username = u, !.Password = p] :
     u \in {"", "user"}, p \in {"", "pass"}}
SigningCfgs ==
  {[BaseCfg EXCEPT !.DKIMDomain = d, !.DKIMSelector = s, !.DKIMKeyPath = k] :
     d \in {"", "fake.org"}, s \in {"", "sel"}, k \in {"", "key.pem"}}
Configs == IdentityCfgs \cup CredentialCfgs \cup SigningCfgs
\* the same with the legacy client's DirectMode set
DirectCfgs == {[c EXCEPT !.DirectMode = TRUE] : c \in Configs}

Engines == {"Send", "SendDirect", "LegacySend"}

\* ------------------------------------------------- the handler's environment

\* if len(body) > 1000
BodyLimit == 1000

\* A body form value: its number of characters, the bytes each takes in
\* UTF-8, and whether it is white space only.
FormBody(n, w, blank) == [chars |-> n, width |-> w, blank |-> blank]
WebBodies ==
  {FormBody(0, 1, TRUE), FormBody(5, 1, TRUE)}
    \cup {FormBody(n, w, FALSE) : n \in {5, 1000, 1001}, w \in {1, 2}}

\* Recipient and subject form values; "CR" and "LF" are the two characters.
WebRecipients ==
  { <<"bob", "@", "corp.example">>,
    <<>>,
    <<"noat">>,
    <<"user", "@", "localhost">>,
    <<"user", "@", "example.com", "CR", "LF", "Bcc: evil">>,
    <<"user", "LF", "@", "example.com">> }
WebSubjects ==
  { <<"Hello subject">>,
    <<>>,
    <<"subject", "CR", "LF", "Bcc: evil">>,
    <<"test", "LF", "newline">>,
    <<"test", "CR", "carriage">> }
PostForms ==
  {[method |-> "POST", to |-> t, subject |-> s, body |-> b] :
     t \in WebRecipients, s \in WebSubjects, b \in WebBodies}
Forms ==
  PostForms \cup {[f EXCEPT !.method = "GET"] : f \in {g \in PostForms :
                     g.body = FormBody(5, 1, FALSE)}}
\* no request: the client is called directly
NoForm == [method |-> "", to |-> <<>>, subject |-> <<>>,
           body |-> FormBody(0, 1, TRUE)]

\* The files of the machine.  A path is a sequence of components, the empty
\* sequence being the empty string.
PerlConfigured == <<"/opt/perl/bin/", "perl">>
knownPerlPaths ==
  << <<"C:/Ruby34-x64/msys64/usr/bin/", "perl.exe">>,
     <<"C:/Strawberry/perl/bin/", "perl.exe">> >>
PerlOnPath == <<"/usr/bin/", "perl">>
ExeDir == "/app/"
Cwd == "/work/"
SwaksAbs == <<"/opt/swaks/", "swaks.pl">>
SwaksRel == <<"swaks.pl">>
PerlFiles == {PerlConfigured, knownPerlPaths[1], knownPerlPaths[2]}
SwaksFiles == {SwaksAbs, <<ExeDir>> \o SwaksRel, <<Cwd>> \o SwaksRel}
\* files: the paths os.Stat finds; lookPath: what exec.LookPath("perl")
\* returns (empty: an error); exe: the directory of os.Executable ("": an
\* error)
FileSystems ==
  {[files |-> pf \cup sf, lookPath |-> lp, exe |-> ex] :
     pf \in SUBSET PerlFiles, sf \in SUBSET SwaksFiles,
     lp \in {<<>>, PerlOnPath}, ex \in {"", ExeDir}}
NoFiles == [files |-> {}, lookPath |-> <<>>, exe |-> ""]

\* config.Config, with values that match BaseCfg.
DefaultEnv ==
  [SMTPMode |-> "relay", EnvelopeStrategy |-> "match-recipient",
   SMTPHost |-> "smtp.example.com", SMTPPort |-> "587",
   SMTPSenderUser |-> "user", SMTPSenderPass |-> "pass",
   SMTPEnvelopeSender |-> AddrEnvelope, SMTPSenderEmail |-> AddrSpoofed,
   SMTPSenderName |-> "Test Name",
   DKIMEnabled |-> FALSE, DKIMDomain |-> "fake.org", DKIMSelector |-> "sel",
   DKIMPrivateKeyPath |-> "key.pem",
   PerlPath |-> <<>>, SwaksPath |-> SwaksRel]
Modes == {"relay", "direct", "external"}
Strategies == {"match-recipient", "custom", ""}
WebEnvs ==
  {[DefaultEnv EXCEPT !.SMTPMode = m, !.EnvelopeStrategy = st,
                      !.DKIMEnabled = d] :
     m \in Modes, st \in Strategies, d \in BOOLEAN}

\* A variable of the process environment: not set, or set to a value (which
\* may be empty).  Text variables and address variables are kept apart.
Unset == [set |-> FALSE, value |-> ""]
UnsetAddr == [set |-> FALSE, value |-> <<>>]
SetTo(v) == [set |-> TRUE, value |-> v]

\* if value, ok := os.LookupEnv(key); ok { return value }; return fallback
getEnv(v, fallback) == IF v.set THEN v.value ELSE fallback

\* config.Load; the signing fields, which Load of src/ does not fill, stay
\* as in DefaultEnv.
Load(os) ==
  LET senderEmail ==
        getEnv(os.SMTP_SENDER_EMAIL, <<"president", "@", "whitehouse.gov">>)
  IN  [DefaultEnv EXCEPT
         !.SMTPMode = getEnv(os.SMTP_MODE, "relay"),
         !.SMTPHost = getEnv(os.SMTP_HOST, "localhost"),
         !.SMTPPort = getEnv(os.SMTP_PORT, "1025"),
         !.SMTPEnvelopeSender = getEnv(os.SMTP_ENVELOPE_SENDER, senderEmail),
         !.SMTPSenderEmail = senderEmail,
         !.SMTPSenderName = getEnv(os.SMTP_SENDER_NAME, "Donald Trump"),
         !.SMTPSenderUser = getEnv(os.SMTP_USER, ""),
         !.SMTPSenderPass = getEnv(os.SMTP_PASS, ""),
         !.PerlPath = getEnv(os.PERL_PATH, <<>>),
         !.SwaksPath = getEnv(os.SWAKS_PATH, SwaksRel),
         !.EnvelopeStrategy = getEnv(os.ENVELOPE_STRATEGY, "match-recipient")]

\* The process environments: the mode, the strategy, the two addresses and
\* the credentials each unset, set, or set but empty.
OsEnvs ==
  {[SMTP_MODE |-> m, ENVELOPE_STRATEGY |-> st,
    SMTP_ENVELOPE_SENDER |-> e, SMTP_SENDER_EMAIL |-> s,
    SMTP_USER |-> c[1], SMTP_PASS |-> c[2],
    SMTP_HOST |-> Unset, SMTP_PORT |-> Unset, SMTP_SENDER_NAME |-> Unset,
    PERL_PATH |-> UnsetAddr, SWAKS_PATH |-> UnsetAddr] :
     m \in {Unset, SetTo("direct")},
     st \in {Unset, SetTo("custom"), SetTo("")},
     e \in {UnsetAddr, SetTo(<<>>), SetTo(AddrEnvelope)},
     s \in {UnsetAddr, SetTo(<<>>), SetTo(AddrSpoofed)},
     c \in {<<Unset, Unset>>, <<SetTo("user"), SetTo("pass")>>}}


\* ------------------------------------------------------------ pure helpers

Max(S) == CHOOSE x \in S : \A y \in S : y <= x

\* senderDomain: the part after the last "@", or "localhost".
senderDomain(email) ==
  LET idx == {i \in 1..Len(email) : email[i] = "@"}
  IN  IF idx # {} THEN SubSeq(email, Max(idx) + 1, Len(email))
      ELSE <<"localhost">>

\* strings.TrimSuffix(host, ".")
TrimDot(h) ==
  CASE h = "mx1." -> "mx1" [] h = "mx2." -> "mx2"
    [] h = "mx3." -> "mx3" [] h = "mx4." -> "mx4" [] OTHER -> h

\* base64.StdEncoding.EncodeToString of the concatenation of the parts.
B64(parts) == <<"base64">> \o parts

\* ------------------------------------------------------------------- state

VARIABLES
  engine,     \* the entry point the request calls
  cfg,        \* the Client value
  to,         \* the recipient
  dns,        \* what the resolver answers for the recipient's domain
  pc,         \* position of the call
  resolved,   \* the records as the resolver returned them
  mxRecords,  \* the records after sort.Slice
  mxIdx,      \* index of the failover loop
  lastErr,    \* SendDirect's lastErr
  dials,      \* every address dialled so far, in order
  conns,      \* state of the connection of every dial: refused, open, closed
  attempts,   \* "ok" or "failed" for every engine attempt that returned
  lastRet,    \* the error the latest engine attempt returned (Nil: ok)
  tp,         \* the channel commands are written to: plain or tls
  adv,        \* the last hello reply advertised STARTTLS
  wire,       \* the commands written on the current connection
  wdead,      \* writes on the connection fail from now on
  rdead,      \* reads on the connection fail from now on
  msg,        \* the message bytes written after DATA
  acked,      \* the peer answered the message and terminator with 250
  pending,    \* the error a return carries while a deferred call runs
  returned,   \* the entry point has returned
  err,        \* the error it returned (Nil: ok)
  subject,    \* the subject argument of the entry point
  body,       \* the body argument of the entry point
  form,       \* the form values of the POST /send request
  env,        \* the config.Config value of the process
  fsys,       \* the files that exist, and what exec.LookPath("perl") finds
  page,       \* what the /send handler rendered
  calls,      \* the strategy calls the handler made, with their arguments
  procs,      \* the subprocesses started, with arguments and standard input
  other       \* the call of another request, while this one runs (<<>>: none)

vars == <<engine, cfg, to, dns, pc, resolved, mxRecords, mxIdx, lastErr, dials,
          conns, attempts, lastRet, tp, adv, wire, wdead, rdead, msg, acked,
          pending, returned, err, subject, body, form, env, fsys, page, calls,
          procs, other>>

input == <<engine, cfg, to, dns, subject, body, form, env, fsys, other>>
web   == <<page, calls, procs>>
loop  == <<resolved, mxRecords, pending>>
sock  == <<wire, wdead, rdead>>

\* The locals of a call that has not taken a step.
Fresh ==
  /\ resolved = <<>>
  /\ mxRecords = <<>>
  /\ mxIdx = 0
  /\ lastErr = Nil
  /\ dials = <<>>
  /\ conns = <<>>
  /\ attempts = <<>>
  /\ lastRet = Nil
  /\ tp = "plain"
  /\ adv = FALSE
  /\ wire = <<>>
  /\ wdead = FALSE
  /\ rdead = FALSE
  /\ msg = <<>>
  /\ acked = FALSE
  /\ pending = Nil
  /\ returned = FALSE
  /\ err = Nil

\* Nothing has been done yet, and no other request is being served.
Quiet ==
  /\ Fresh
  /\ page = <<>>
  /\ procs = <<>>
  /\ other = <<>>

\* An entry point of the client called on its own, outside the handler.
Start ==
  /\ to \in Recipients
  /\ subject = <<Subject>>
  /\ body = <<Body>>
  /\ form = NoForm
  /\ env = DefaultEnv
  /\ fsys = NoFiles
  /\ calls = <<>>
  /\ pc = "start"
  /\ Quiet

\* Does the request consult the resolver?
UsesResolver(e, c) == e = "SendDirect" \/ (e = "LegacySend" /\ c.DirectMode)

\* Every engine and configuration, the resolver answering with at most one
\* record.
Init ==
  /\ engine \in Engines
  /\ cfg \in IF engine = "LegacySend" THEN Configs \cup DirectCfgs ELSE Configs
  /\ dns \in IF UsesResolver(engine, cfg) THEN SingleAnswers ELSE {DNSError}
  /\ Start

\* The direct path under every answer of the resolver.
InitMX ==
  /\ engine = "SendDirect"
  /\ cfg = BaseCfg
  /\ dns \in MXAnswers
  /\ Start


\* ------------------------------------------------------------ the protocol

\* A variant in which commands stay on the connection the session began on.
CmdOnFirstConn(c, a, r) == [cmd |-> c, arg |-> a, ch |-> "plain", reply |-> r]

\* One line written on the current channel, with the reply read for it.
Cmd(c, a, r) == [cmd |-> c, arg |-> a, ch |-> tp, reply |-> r]

\* Outcomes of a write and of a read on the connection.
CanWrite == IF wdead THEN {FALSE} ELSE BOOLEAN
Replies(expect) == IF rdead THEN {"EOF"} ELSE {expect, "550", "EOF"}

\* sendCommand(expectCode, format, args...): tp.Cmd writes the line (w: the
\* write succeeded), tp.ReadResponse reads the reply r.
sendCommand(c, a, w, r) ==
  /\ wire' = IF w THEN Append(wire, Cmd(c, a, r)) ELSE wire
  /\ wdead' = (wdead \/ ~w)
  /\ rdead' = (rdead \/ ~w \/ r = "EOF")

\* A variant of sendCommand that takes any reply for the expected one.
AnyReplyPasses(expect, w, r) == IF ~w THEN "write failed" ELSE ""

\* The error sendCommand returns ("": nil).
CmdErr(expect, w, r) ==
  IF ~w THEN "write failed" ELSE IF r # expect THEN r ELSE ""

\* defer conn.Close()
DeferredClose(cs) == [cs EXCEPT ![Len(cs)] = "closed"]

\* The entry point returns e.
ReturnTop(e) ==
  /\ returned' = TRUE
  /\ err' = e
  /\ pc' = "done"

\* Variants of the loop: one that goes on after a success, one that keeps
\* the first error.
NeverStop(e) == FALSE
KeepFirstErr(prev, e) == IF prev = Nil THEN e ELSE prev

\* SendDirect's loop: what it does with the error of one sendToMX call.
StopOnSuccess(e) == e = Nil
NextLastErr(prev, e) == e
WrapLast(e) == <<"all MX servers failed, last error">> \o e

LoopNext(e) ==
  /\ lastErr' = NextLastErr(lastErr, e)
  /\ IF StopOnSuccess(lastErr')
       THEN ReturnTop(Nil) /\ mxIdx' = mxIdx
       ELSE IF mxIdx < Len(mxRecords)
              THEN /\ mxIdx' = mxIdx + 1
                   /\ pc' = "dial"
                   /\ UNCHANGED <<returned, err>>
              ELSE /\ ReturnTop(WrapLast(lastErr'))
                   /\ mxIdx' = mxIdx

\* One engine attempt (Send, sendToMX, the legacy Send) returns e, leaving
\* the connections as cs.
ReturnAttempt(e, cs) ==
  /\ conns' = cs
  /\ attempts' = Append(attempts, IF e = Nil THEN "ok" ELSE "failed")
  /\ lastRet' = e
  /\ IF engine = "SendDirect"
       THEN LoopNext(e)
       ELSE ReturnTop(e) /\ UNCHANGED <<mxIdx, lastErr>>

\* The attempt goes on to its next interaction.
Goto(p) ==
  /\ pc' = p
  /\ UNCHANGED <<conns, attempts, lastRet, mxIdx, lastErr, returned, err>>

\* ------------------------------------------------------------- the message

Header(k, v) == [k |-> k, v |-> v]

\* "From: %s <%s>" and "Reply-To: %s <%s>"
FromValue(c) == <<c.SenderName, "<">> \o c.SenderEmail \o <<">">>

\* A variant of the message with the content type of a text message.
PlainContentType == "text/plain; charset=UTF-8"

\* "Content-Type: text/html; charset=UTF-8"
HtmlContentType == "text/html; charset=UTF-8"

\* The headers and body Send and sendToMX join.
Compose(c, rcpt, domain) ==
  << Header("From", FromValue(c)),
     Header("Reply-To", FromValue(c)),
     Header("To", rcpt),
     Header("Subject", subject),
     Header("Date", <<"now">>),
     Header("Message-ID", <<"<", "now", "@">> \o domain \o <<">">>),
     Header("MIME-Version", <<"1.0">>),
     Header("Content-Type", <<HtmlContentType>>),
     Header("body", body) >>

\* A variant of the gate that opens when any one of the fields is set.
SigningAny(c) == c.DKIMDomain # "" \/ c.DKIMSelector # "" \/ c.DKIMKeyPath # ""

\* if c.DKIMDomain != "" && c.DKIMSelector != "" && c.DKIMKeyPath != ""
SigningOn(c) == c.DKIMDomain # "" /\ c.DKIMSelector # "" /\ c.DKIMKeyPath # ""

\* SignMessage: "ok", or the step of it that failed (the key file is the
\* environment's).
SignOutcomes ==
  {"ok", "reading DKIM key", "no PEM block found", "parsing DKIM private key",
   "DKIM key does not implement crypto.Signer", "DKIM signing"}

\* dkim.Sign prepends the signature header.
Signed(m, c) ==
  <<Header("DKIM-Signature", <<c.DKIMDomain, c.DKIMSelector>>)>> \o m

\* A variant of SignMessage that hands the message back as it was when it
\* cannot sign it.
SignOrPassThrough(m, c, so) ==
  [err |-> Nil, msg |-> IF so = "ok" THEN Signed(m, c) ELSE m]

\* SignMessage under the outcome so: the signed message and nil, or "" and
\* the error of the step that failed.
SignMessage(m, c, so) ==
  IF so = "ok" THEN [err |-> Nil, msg |-> Signed(m, c)]
  ELSE [err |-> <<so>>, msg |-> <<>>]

WriteErrors ==
  {"failed to write message", "failed to write terminator", "failed to flush"}

\* ------------------------------------------------- Client.Send (relay path)

\* A variant of the test that is content with one of the two.
EitherCredential(c) == c.Username # "" \/ c.Password # ""

\* if c.Username != "" && c.Password != ""
HasCredentials(c) == c.Username # "" /\ c.Password # ""

\* Variants of Send: the plaintext mechanism tried first; the display address
\* in MAIL FROM.
PlainFirst(c) == IF HasCredentials(c) THEN "authplain" ELSE "mail"
MailFromDisplay(c) == c.SenderEmail

\* Where Send goes after the upgrade step.
SendAfterUpgrade(c) == IF HasCredentials(c) THEN "authlogin" ELSE "mail"

\* The argument of Send's MAIL FROM command.
SendMailFromArg(c) == c.EnvelopeSender

SendDial ==
  /\ engine = "Send" /\ pc = "start"
  /\ dials' = Append(dials, <<cfg.Host, cfg.Port>>)
  /\ \E ok \in BOOLEAN :
       IF ok
         THEN /\ conns' = Append(conns, "open")
              /\ pc' = "greeting"
              /\ UNCHANGED <<attempts, lastRet, mxIdx, lastErr, returned, err>>
         ELSE ReturnAttempt(<<"failed to connect to SMTP server", "dial error">>,
                            Append(conns, "refused"))
  /\ UNCHANGED <<input, web, loop, sock, tp, adv, msg, acked>>

SendGreeting ==
  /\ engine = "Send" /\ pc = "greeting"
  /\ \E r \in Replies("220") :
       /\ rdead' = (rdead \/ r = "EOF")
       /\ IF r = "220"
            THEN Goto("ehlo")
            ELSE ReturnAttempt(<<"greeting failed", r>>, DeferredClose(conns))
  /\ UNCHANGED <<input, web, loop, dials, wire, wdead, tp, adv, msg, acked>>

SendEhlo ==
  /\ engine = "Send" /\ pc = "ehlo"
  /\ \E w \in CanWrite, r \in Replies("250"), a \in BOOLEAN :
       /\ sendCommand("EHLO", senderDomain(cfg.EnvelopeSender), w, r)
       /\ IF CmdErr("250", w, r) = ""
            THEN Goto("starttls") /\ adv' = a
            ELSE /\ ReturnAttempt(<<"EHLO failed", CmdErr("250", w, r)>>,
                                  DeferredClose(conns))
                 /\ adv' = adv
  /\ UNCHANGED <<input, web, loop, dials, tp, msg, acked>>

SendStartTLS ==
  /\ engine = "Send" /\ pc = "starttls"
  /\ \E w \in CanWrite, r \in Replies("220") :
       /\ sendCommand("STARTTLS", <<>>, w, r)
       /\ IF w /\ r = "220"
            THEN Goto("ehlo2") /\ tp' = "tls"
            ELSE Goto(SendAfterUpgrade(cfg)) /\ tp' = tp
  /\ UNCHANGED <<input, web, loop, dials, adv, msg, acked>>

\* The hello on the new tls.Client: the handshake runs inside its first write.
SendPostTLSEhlo ==
  /\ engine = "Send" /\ pc = "ehlo2"
  /\ \E hs \in BOOLEAN, w \in CanWrite, r \in Replies("250"), a \in BOOLEAN :
       IF ~hs
         THEN /\ ReturnAttempt(<<"post-TLS EHLO failed", "tls handshake failed">>,
                               DeferredClose(conns))
              /\ wdead' = TRUE /\ rdead' = TRUE
              /\ UNCHANGED <<wire, adv>>
         ELSE /\ sendCommand("EHLO", senderDomain(cfg.EnvelopeSender), w, r)
              /\ IF CmdErr("250", w, r) = ""
                   THEN Goto(SendAfterUpgrade(cfg)) /\ adv' = a
                   ELSE /\ ReturnAttempt(
                             <<"post-TLS EHLO failed", CmdErr("250", w, r)>>,
                             DeferredClose(conns))
                        /\ adv' = adv
  /\ UNCHANGED <<input, web, loop, dials, tp, msg, acked>>


\* A variant of Send that falls back to AUTH PLAIN from inside the exchange.
LoginRejectedFallsBack == "fallback"

\* What Send does when a step of the AUTH LOGIN exchange is rejected after
\* the 334 of the command itself.
SendOnLoginRejected == "return"

SendAuthLogin ==
  /\ engine = "Send" /\ pc = "authlogin"
  /\ \E w \in CanWrite, r \in Replies("334") :
       /\ sendCommand("AUTH LOGIN", <<>>, w, r)
       /\ IF CmdErr("334", w, r) = ""
            THEN Goto("authuser")
            ELSE Goto("authplain")
  /\ UNCHANGED <<input, web, loop, dials, tp, adv, msg, acked>>

SendAuthUser ==
  /\ engine = "Send" /\ pc = "authuser"
  /\ \E w \in CanWrite, r \in Replies("334") :
       /\ sendCommand("LOGIN username", B64(<<cfg.Username>>), w, r)
       /\ IF CmdErr("334", w, r) = ""
            THEN Goto("authpass")
            ELSE IF SendOnLoginRejected = "return"
                   THEN ReturnAttempt(<<"AUTH LOGIN username rejected",
                                        CmdErr("334", w, r)>>,
                                      DeferredClose(conns))
                   ELSE Goto("authplain")
  /\ UNCHANGED <<input, web, loop, dials, tp, adv, msg, acked>>

SendAuthPass ==
  /\ engine = "Send" /\ pc = "authpass"
  /\ \E w \in CanWrite, r \in Replies("235") :
       /\ sendCommand("LOGIN password", B64(<<cfg.Password>>), w, r)
       /\ IF CmdErr("235", w, r) = ""
            THEN Goto("mail")
            ELSE IF SendOnLoginRejected = "return"
                   THEN ReturnAttempt(<<"AUTH LOGIN password rejected",
                                        CmdErr("235", w, r)>>,
                                      DeferredClose(conns))
                   ELSE Goto("authplain")
  /\ UNCHANGED <<input, web, loop, dials, tp, adv, msg, acked>>

SendAuthPlain ==
  /\ engine = "Send" /\ pc = "authplain"
  /\ \E w \in CanWrite, r \in Replies("235") :
       /\ sendCommand("AUTH PLAIN",
                      B64(<<"NUL", cfg.Username, "NUL", cfg.Password>>), w, r)
       /\ IF CmdErr("235", w, r) = ""
            THEN Goto("mail")
            ELSE ReturnAttempt(<<"AUTH failed", CmdErr("235", w, r)>>,
                               DeferredClose(conns))
  /\ UNCHANGED <<input, web, loop, dials, tp, adv, msg, acked>>

SendMailFrom ==
  /\ engine = "Send" /\ pc = "mail"
  /\ \E w \in CanWrite, r \in Replies("250") :
       /\ sendCommand("MAIL FROM", SendMailFromArg(cfg), w, r)
       /\ IF CmdErr("250", w, r) = ""
            THEN Goto("rcpt")
            ELSE ReturnAttempt(<<"MAIL FROM failed", CmdErr("250", w, r)>>,
                               DeferredClose(conns))
  /\ UNCHANGED <<input, web, loop, dials, tp, adv, msg, acked>>

SendRcptTo ==
  /\ engine = "Send" /\ pc = "rcpt"
  /\ \E w \in CanWrite, r \in Replies("250") :
       /\ sendCommand("RCPT TO", to, w, r)
       /\ IF CmdErr("250", w, r) = ""
            THEN Goto("data")
            ELSE ReturnAttempt(<<"RCPT TO failed", CmdErr("250", w, r)>>,
                               DeferredClose(conns))
  /\ UNCHANGED <<input, web, loop, dials, tp, adv, msg, acked>>

\* A variant of Send that reports a refused DATA as a rejected message.
DataErrAsRejected(e) == <<"message rejected", e>>

\* fmt.Errorf("DATA failed: %w", err)
SendDataErr(e) == <<"DATA failed", e>>

SendData ==
  /\ engine = "Send" /\ pc = "data"
  /\ \E w \in CanWrite, r \in Replies("354") :
       /\ sendCommand("DATA", <<>>, w, r)
       /\ IF CmdErr("354", w, r) = ""
            THEN Goto("write")
            ELSE ReturnAttempt(SendDataErr(CmdErr("354", w, r)),
                               DeferredClose(conns))
  /\ UNCHANGED <<input, web, loop, dials, tp, adv, msg, acked>>

\* The message is composed, signed when the three signing fields are set,
\* and written with its terminator.
SendWrite ==
  /\ engine = "Send" /\ pc = "write"
  /\ \E so \in SignOutcomes, w \in CanWrite, we \in WriteErrors :
       LET m == Compose(cfg, to, senderDomain(cfg.EnvelopeSender))
           signed == SignMessage(m, cfg, so)
       IN  IF SigningOn(cfg) /\ signed.err # Nil
             THEN /\ ReturnAttempt(<<"DKIM signing">> \o signed.err,
                                   DeferredClose(conns))
                  /\ UNCHANGED <<msg, wdead, rdead>>
             ELSE IF ~w
                    THEN /\ ReturnAttempt(<<we, "write failed">>,
                                          DeferredClose(conns))
                         /\ wdead' = TRUE /\ rdead' = TRUE
                         /\ msg' = msg
                    ELSE /\ msg' = IF SigningOn(cfg) THEN signed.msg ELSE m
                         /\ Goto("final")
                         /\ UNCHANGED <<wdead, rdead>>
  /\ UNCHANGED <<input, web, loop, dials, wire, tp, adv, acked>>

\* A variant of Send that takes any final reply for an acceptance.
AcceptAnyFinal(r) == TRUE

\* The reply the final tp.ReadResponse(250) must see.
FinalAccepted(r) == r = "250"

SendFinal ==
  /\ engine = "Send" /\ pc = "final"
  /\ \E r \in Replies("250") :
       /\ rdead' = (rdead \/ r = "EOF")
       /\ acked' = (r = "250")
       /\ IF FinalAccepted(r)
            THEN Goto("quit")
            ELSE ReturnAttempt(<<"message rejected", r>>, DeferredClose(conns))
  /\ UNCHANGED <<input, web, loop, dials, wire, wdead, tp, adv, msg>>

\* _ = sendCommand(221, "QUIT"); return nil
SendQuit ==
  /\ engine = "Send" /\ pc = "quit"
  /\ \E w \in CanWrite, r \in Replies("221") :
       /\ sendCommand("QUIT", <<>>, w, r)
       /\ ReturnAttempt(Nil, DeferredClose(conns))
  /\ UNCHANGED <<input, web, loop, dials, tp, adv, msg, acked>>

\* ---------------------------------- Client.SendDirect and Client.sendToMX

\* The less function given to sort.Slice.
LessPref(a, b) == a.Pref < b.Pref

\* sort.Slice(mxRecords, less): a permutation of the records that is sorted
\* by less.  sort.Slice is not a stable sort: records that less does not
\* order may come out in any order.
SortSlice(recs) ==
  LET n == Len(recs)
      perms == {p \in [1..n -> 1..n] : \A i, j \in 1..n : i # j => p[i] # p[j]}
  IN  {s \in {[i \in 1..n |-> recs[p[i]]] : p \in perms} :
         \A i, j \in 1..n : i < j => ~LessPref(s[j], s[i])}

\* host of the current loop iteration
MxHost == TrimDot(mxRecords[mxIdx].Host)

\* The argument of sendToMX's MAIL FROM command.
MxMailFromArg(c) == c.SenderEmail

SendDirectLookup ==
  /\ engine = "SendDirect" /\ pc = "start"
  /\ IF ~dns.ok
       THEN /\ ReturnTop(<<"MX lookup failed for">> \o senderDomain(to)
                           \o <<"lookup error">>)
            /\ UNCHANGED <<resolved, mxRecords, mxIdx>>
       ELSE IF Len(dns.recs) = 0
              THEN /\ ReturnTop(<<"no MX records found for">>
                                  \o senderDomain(to))
                   /\ UNCHANGED <<resolved, mxRecords, mxIdx>>
              ELSE /\ resolved' = dns.recs
                   /\ mxRecords' \in SortSlice(dns.recs)
                   /\ mxIdx' = 1
                   /\ pc' = "dial"
                   /\ UNCHANGED <<returned, err>>
  /\ UNCHANGED <<input, web, lastErr, dials, conns, attempts, lastRet, tp, adv,
                 sock, msg, acked, pending>>

\* sendToMX starts: a new connection, a new textproto.Conn.
MxDial ==
  /\ engine = "SendDirect" /\ pc = "dial"
  /\ dials' = Append(dials, <<MxHost, "25">>)
  /\ wire' = <<>> /\ wdead' = FALSE /\ rdead' = FALSE
  /\ tp' = "plain" /\ adv' = FALSE /\ msg' = <<>> /\ acked' = FALSE
  /\ \E ok \in BOOLEAN :
       IF ok
         THEN /\ conns' = Append(conns, "open")
              /\ pc' = "greeting"
              /\ UNCHANGED <<attempts, lastRet, mxIdx, lastErr, returned, err>>
         ELSE ReturnAttempt(<<"connect to", MxHost, "failed", "dial error">>,
                            Append(conns, "refused"))
  /\ UNCHANGED <<input, web, loop>>

MxGreeting ==
  /\ engine = "SendDirect" /\ pc = "greeting"
  /\ \E r \in Replies("220") :
       /\ rdead' = (rdead \/ r = "EOF")
       /\ IF r = "220"
            THEN Goto("ehlo")
            ELSE ReturnAttempt(<<"greeting from", MxHost, "failed", r>>,
                               DeferredClose(conns))
  /\ UNCHANGED <<input, web, loop, dials, wire, wdead, tp, adv, msg, acked>>

MxEhlo ==
  /\ engine = "SendDirect" /\ pc = "ehlo"
  /\ \E w \in CanWrite, r \in Replies("250"), a \in BOOLEAN :
       /\ sendCommand("EHLO", senderDomain(cfg.SenderEmail), w, r)
       /\ IF CmdErr("250", w, r) = ""
            THEN Goto("starttls") /\ adv' = a
            ELSE /\ ReturnAttempt(<<"EHLO failed", CmdErr("250", w, r)>>,
                                  DeferredClose(conns))
                 /\ adv' = adv
  /\ UNCHANGED <<input, web, loop, dials, tp, msg, acked>>

MxStartTLS ==
  /\ engine = "SendDirect" /\ pc = "starttls"
  /\ \E w \in CanWrite, r \in Replies("220") :
       /\ sendCommand("STARTTLS", <<>>, w, r)
       /\ IF w /\ r = "220"
            THEN Goto("ehlo2") /\ tp' = "tls"
            ELSE Goto("mail") /\ tp' = tp
  /\ UNCHANGED <<input, web, loop, dials, adv, msg, acked>>

MxPostTLSEhlo ==
  /\ engine = "SendDirect" /\ pc = "ehlo2"
  /\ \E hs \in BOOLEAN, w \in CanWrite, r \in Replies("250"), a \in BOOLEAN :
       IF ~hs
         THEN /\ ReturnAttempt(<<"post-TLS EHLO failed", "tls handshake failed">>,
                               DeferredClose(conns))
              /\ wdead' = TRUE /\ rdead' = TRUE
              /\ UNCHANGED <<wire, adv>>
         ELSE /\ sendCommand("EHLO", senderDomain(cfg.SenderEmail), w, r)
              /\ IF CmdErr("250", w, r) = ""
                   THEN Goto("mail") /\ adv' = a
                   ELSE /\ ReturnAttempt(
                             <<"post-TLS EHLO failed", CmdErr("250", w, r)>>,
                             DeferredClose(conns))
                        /\ adv' = adv
  /\ UNCHANGED <<input, web, loop, dials, tp, msg, acked>>

MxMailFrom ==
  /\ engine = "SendDirect" /\ pc = "mail"
  /\ \E w \in CanWrite, r \in Replies("250") :
       /\ sendCommand("MAIL FROM", MxMailFromArg(cfg), w, r)
       /\ IF CmdErr("250", w, r) = ""
            THEN Goto("rcpt")
            ELSE ReturnAttempt(<<"MAIL FROM failed", CmdErr("250", w, r)>>,
                               DeferredClose(conns))
  /\ UNCHANGED <<input, web, loop, dials, tp, adv, msg, acked>>

MxRcptTo ==
  /\ engine = "SendDirect" /\ pc = "rcpt"
  /\ \E w \in CanWrite, r \in Replies("250") :
       /\ sendCommand("RCPT TO", to, w, r)
       /\ IF CmdErr("250", w, r) = ""
            THEN Goto("data")
            ELSE ReturnAttempt(<<"RCPT TO failed", CmdErr("250", w, r)>>,
                               DeferredClose(conns))
  /\ UNCHANGED <<input, web, loop, dials, tp, adv, msg, acked>>

MxData ==
  /\ engine = "SendDirect" /\ pc = "data"
  /\ \E w \in CanWrite, r \in Replies("354") :
       /\ sendCommand("DATA", <<>>, w, r)
       /\ IF CmdErr("354", w, r) = ""
            THEN Goto("write")
            ELSE ReturnAttempt(<<"DATA failed", CmdErr("354", w, r)>>,
                               DeferredClose(conns))
  /\ UNCHANGED <<input, web, loop, dials, tp, adv, msg, acked>>

MxWrite ==
  /\ engine = "SendDirect" /\ pc = "write"
  /\ \E so \in SignOutcomes, w \in CanWrite, we \in WriteErrors :
       LET m == Compose(cfg, to, senderDomain(cfg.SenderEmail))
           signed == SignMessage(m, cfg, so)
       IN  IF SigningOn(cfg) /\ signed.err # Nil
             THEN /\ ReturnAttempt(<<"DKIM signing">> \o signed.err,
                                   DeferredClose(conns))
                  /\ UNCHANGED <<msg, wdead, rdead>>
             ELSE IF ~w
                    THEN /\ ReturnAttempt(<<we, "write failed">>,
                                          DeferredClose(conns))
                         /\ wdead' = TRUE /\ rdead' = TRUE
                         /\ msg' = msg
                    ELSE /\ msg' = IF SigningOn(cfg) THEN signed.msg ELSE m
                         /\ Goto("final")
                         /\ UNCHANGED <<wdead, rdead>>
  /\ UNCHANGED <<input, web, loop, dials, wire, tp, adv, acked>>

\* The reply sendToMX's final tp.ReadResponse(250) must see.
MxFinalAccepted(r) == r = "250"

MxFinal ==
  /\ engine = "SendDirect" /\ pc = "final"
  /\ \E r \in Replies("250") :
       /\ rdead' = (rdead \/ r = "EOF")
       /\ acked' = (r = "250")
       /\ IF MxFinalAccepted(r)
            THEN Goto("quit")
            ELSE ReturnAttempt(<<"message rejected by", MxHost, r>>,
                               DeferredClose(conns))
  /\ UNCHANGED <<input, web, loop, dials, wire, wdead, tp, adv, msg>>

MxQuit ==
  /\ engine = "SendDirect" /\ pc = "quit"
  /\ \E w \in CanWrite, r \in Replies("221") :
       /\ sendCommand("QUIT", <<>>, w, r)
       /\ ReturnAttempt(Nil, DeferredClose(conns))
  /\ UNCHANGED <<input, web, loop, dials, tp, adv, msg, acked>>

\* --------------------------------- Client.Send of the net/smtp based client

\* strings.Split(s, "@"): the pieces between the "@".
SplitAt(s) ==
  LET ats == {i \in 1..Len(s) : s[i] = "@"}
      starts == {0} \cup ats
      piece(a) ==
        LET later == {b \in ats : b > a}
            stop == IF later = {} THEN Len(s) + 1
                    ELSE CHOOSE b \in later : \A x \in later : b <= x
        IN  SubSeq(s, a + 1, stop - 1)
      ordered == [k \in 1..Cardinality(starts) |->
                    CHOOSE a \in starts :
                      Cardinality({x \in starts : x < a}) = k - 1]
  IN  [k \in 1..Cardinality(starts) |-> piece(ordered[k])]

\* The domain the legacy Send puts in the Message-ID.
LegacyDomain(email) ==
  IF \E i \in 1..Len(email) : email[i] = "@"
    THEN SplitAt(email)[2] ELSE <<"localhost">>

\* The headers and body the legacy Send joins.
LegacyCompose(c, rcpt) ==
  << Header("From", FromValue(c)),
     Header("To", rcpt),
     Header("Subject", subject),
     Header("Date", <<"now">>),
     Header("Message-ID",
            <<"<", "now", ".", "phishing-sim", "@">>
              \o LegacyDomain(c.SenderEmail) \o <<">">>),
     Header("MIME-Version", <<"1.0">>),
     Header("Content-Type", <<"text/plain; charset=UTF-8">>),
     Header("body", body) >>

\* net/smtp's isLocalhost
isLocalhost(name) == name \in {"localhost", "127.0.0.1", "::1"}

\* Where the legacy Send goes after the upgrade step.
LegacyAfterUpgrade(c) ==
  IF ~c.DirectMode /\ HasCredentials(c) THEN "auth" ELSE "mail"

\* if ok, _ := client.Extension("STARTTLS"); ok
LegacyWantsUpgrade(advertised) == advertised

\* A return after `defer client.Quit()`: the error waits for the deferred Quit.
LegacyReturn(e) ==
  /\ pending' = e
  /\ pc' = "defer"
  /\ UNCHANGED <<conns, attempts, lastRet, mxIdx, lastErr, returned, err>>

LegacyGoto(p) == Goto(p) /\ pending' = pending

LegacyLookup ==
  /\ engine = "LegacySend" /\ pc = "start" /\ cfg.DirectMode
  /\ IF Len(SplitAt(to)) # 2
       THEN /\ ReturnAttempt(<<"invalid recipient email">> \o to, conns)
            /\ resolved' = resolved
       ELSE IF ~dns.ok
              THEN /\ ReturnAttempt(<<"MX lookup failed for">> \o SplitAt(to)[2]
                                      \o <<"lookup error">>, conns)
                   /\ resolved' = resolved
              ELSE IF Len(dns.recs) = 0
                     THEN /\ ReturnAttempt(<<"no MX records found for">>
                                             \o SplitAt(to)[2], conns)
                          /\ resolved' = resolved
                     ELSE /\ resolved' = dns.recs
                          /\ Goto("dial")
  /\ UNCHANGED <<input, web, mxRecords, pending, dials, tp, adv, sock, msg, acked>>

LegacyDial ==
  /\ engine = "LegacySend"
  /\ \/ pc = "start" /\ ~cfg.DirectMode
     \/ pc = "dial"
  /\ dials' = Append(dials, IF cfg.DirectMode THEN <<resolved[1].Host, "25">>
                            ELSE <<cfg.Host, cfg.Port>>)
  /\ \E ok \in BOOLEAN :
       IF ok
         THEN /\ conns' = Append(conns, "open")
              /\ pc' = "greeting"
              /\ UNCHANGED <<attempts, lastRet, mxIdx, lastErr, returned, err>>
         ELSE ReturnAttempt(<<"failed to connect to SMTP server", "dial error">>,
                            Append(conns, "refused"))
  /\ UNCHANGED <<input, web, loop, sock, tp, adv, msg, acked>>

\* smtp.NewClient reads the greeting; on failure it closes the connection and
\* Send closes it again.
LegacyNewClient ==
  /\ engine = "LegacySend" /\ pc = "greeting"
  /\ \E r \in Replies("220") :
       /\ rdead' = (rdead \/ r = "EOF")
       /\ IF r = "220"
            THEN Goto("ehlo")
            ELSE ReturnAttempt(<<"failed to create SMTP client", r>>,
                               DeferredClose(conns))
  /\ UNCHANGED <<input, web, loop, dials, wire, wdead, tp, adv, msg, acked>>

\* client.Hello("localhost"): EHLO, and HELO when EHLO fails.
LegacyEhlo ==
  /\ engine = "LegacySend" /\ pc = "ehlo"
  /\ \E w \in CanWrite, r \in Replies("250"), a \in BOOLEAN :
       /\ sendCommand("EHLO", <<"localhost">>, w, r)
       /\ IF CmdErr("250", w, r) = ""
            THEN /\ adv' = a
                 /\ LegacyGoto(IF LegacyWantsUpgrade(a) THEN "starttls"
                               ELSE LegacyAfterUpgrade(cfg))
            ELSE /\ adv' = adv
                 /\ LegacyGoto("helo")
  /\ UNCHANGED <<input, web, resolved, mxRecords, dials, tp, msg, acked>>

LegacyHelo ==
  /\ engine = "LegacySend" /\ pc = "helo"
  /\ \E w \in CanWrite, r \in Replies("250") :
       /\ sendCommand("HELO", <<"localhost">>, w, r)
       /\ IF CmdErr("250", w, r) = ""
            THEN LegacyGoto(LegacyAfterUpgrade(cfg))
            ELSE LegacyReturn(<<"HELO failed", CmdErr("250", w, r)>>)
  /\ adv' = FALSE
  /\ UNCHANGED <<input, web, resolved, mxRecords, dials, tp, msg, acked>>

\* client.StartTLS: the STARTTLS command; an error is logged and Send goes on.
LegacyStartTLS ==
  /\ engine = "LegacySend" /\ pc = "starttls"
  /\ \E w \in CanWrite, r \in Replies("220") :
       /\ sendCommand("STARTTLS", <<>>, w, r)
       /\ IF CmdErr("220", w, r) = ""
            THEN LegacyGoto("ehlo2") /\ tp' = "tls"
            ELSE LegacyGoto(LegacyAfterUpgrade(cfg)) /\ tp' = tp
  /\ UNCHANGED <<input, web, resolved, mxRecords, dials, adv, msg, acked>>

\* client.StartTLS: the hello on the tls.Client; an error is logged and Send
\* goes on, on the tls.Client.
LegacyPostTLSEhlo ==
  /\ engine = "LegacySend" /\ pc = "ehlo2"
  /\ \E hs \in BOOLEAN, w \in CanWrite, r \in Replies("250"), a \in BOOLEAN :
       IF ~hs
         THEN /\ wdead' = TRUE /\ rdead' = TRUE
              /\ UNCHANGED <<wire, adv>>
         ELSE /\ sendCommand("EHLO", <<"localhost">>, w, r)
              /\ adv' = IF CmdErr("250", w, r) = "" THEN a ELSE adv
  /\ LegacyGoto(LegacyAfterUpgrade(cfg))
  /\ UNCHANGED <<input, web, resolved, mxRecords, dials, tp, msg, acked>>

\* client.Auth(smtp.PlainAuth("", user, pass, c.Host)).  PlainAuth refuses to
\* start on a connection without TLS to a host that is not localhost; a reply
\* other than 235 aborts the exchange.  Both call c.Quit() before returning.
LegacyAuth ==
  /\ engine = "LegacySend" /\ pc = "auth"
  /\ IF tp # "tls" /\ ~isLocalhost(cfg.Host)
       THEN /\ pending' = <<"authentication failed", "unencrypted connection">>
            /\ Goto("authquit")
            /\ UNCHANGED sock
       ELSE \E w \in CanWrite, r \in Replies("235") :
              /\ sendCommand("AUTH PLAIN",
                   B64(<<"NUL", cfg.Username, "NUL", cfg.Password>>), w, r)
              /\ IF CmdErr("235", w, r) = ""
                   THEN LegacyGoto("mail")
                   ELSE IF w /\ r # "EOF"
                          THEN /\ pending' = <<"authentication failed", r>>
                               /\ Goto("authabort")
                          ELSE LegacyReturn(<<"authentication failed",
                                              CmdErr("235", w, r)>>)
  /\ UNCHANGED <<input, web, resolved, mxRecords, dials, tp, adv, msg, acked>>

\* c.cmd(501, "*")
LegacyAuthAbort ==
  /\ engine = "LegacySend" /\ pc = "authabort"
  /\ \E w \in CanWrite, r \in Replies("501") :
       sendCommand("*", <<>>, w, r)
  /\ LegacyGoto("authquit")
  /\ UNCHANGED <<input, web, resolved, mxRecords, dials, tp, adv, msg, acked>>

\* Client.Quit: the QUIT command, and Text.Close() when it is answered 221.
QuitCloses(w, r) == w /\ r = "221"

LegacyQuitExchange(w, r) ==
  /\ wire' = IF w THEN Append(wire, Cmd("QUIT", <<>>, r)) ELSE wire
  /\ wdead' = (wdead \/ ~w \/ QuitCloses(w, r))
  /\ rdead' = (rdead \/ ~w \/ r = "EOF" \/ QuitCloses(w, r))
  /\ conns' = IF QuitCloses(w, r) THEN DeferredClose(conns) ELSE conns

\* the c.Quit() inside Client.Auth
LegacyAuthQuit ==
  /\ engine = "LegacySend" /\ pc = "authquit"
  /\ \E w \in CanWrite, r \in Replies("221") :
       LegacyQuitExchange(w, r)
  /\ pc' = "defer"
  /\ UNCHANGED <<input, web, loop, dials, attempts, lastRet, mxIdx, lastErr,
                 returned, err, tp, adv, msg, acked>>

LegacyMail ==
  /\ engine = "LegacySend" /\ pc = "mail"
  /\ \E w \in CanWrite, r \in Replies("250") :
       /\ sendCommand("MAIL FROM", cfg.SenderEmail, w, r)
       /\ IF CmdErr("250", w, r) = ""
            THEN LegacyGoto("rcpt")
            ELSE LegacyReturn(<<"MAIL FROM failed", CmdErr("250", w, r)>>)
  /\ UNCHANGED <<input, web, resolved, mxRecords, dials, tp, adv, msg, acked>>

LegacyRcpt ==
  /\ engine = "LegacySend" /\ pc = "rcpt"
  /\ \E w \in CanWrite, r \in Replies("250") :
       /\ sendCommand("RCPT TO", to, w, r)
       /\ IF CmdErr("250", w, r) = ""
            THEN LegacyGoto("data")
            ELSE LegacyReturn(<<"RCPT TO failed", CmdErr("250", w, r)>>)
  /\ UNCHANGED <<input, web, resolved, mxRecords, dials, tp, adv, msg, acked>>

LegacyData ==
  /\ engine = "LegacySend" /\ pc = "data"
  /\ \E w \in CanWrite, r \in Replies("354") :
       /\ sendCommand("DATA", <<>>, w, r)
       /\ IF CmdErr("354", w, r) = ""
            THEN LegacyGoto("write")
            ELSE LegacyReturn(<<"DATA command failed", CmdErr("354", w, r)>>)
  /\ UNCHANGED <<input, web, resolved, mxRecords, dials, tp, adv, msg, acked>>

\* w.Write([]byte(msg))
LegacyWrite ==
  /\ engine = "LegacySend" /\ pc = "write"
  /\ \E w \in CanWrite :
       IF ~w
         THEN /\ LegacyReturn(<<"failed to write body", "write failed">>)
              /\ wdead' = TRUE /\ rdead' = TRUE
              /\ msg' = msg
         ELSE /\ msg' = LegacyCompose(cfg, to)
              /\ LegacyGoto("close")
              /\ UNCHANGED <<wdead, rdead>>
  /\ UNCHANGED <<input, web, resolved, mxRecords, dials, wire, tp, adv, acked>>

\* w.Close(): the terminator is written and the 250 reply read.
LegacyClose ==
  /\ engine = "LegacySend" /\ pc = "close"
  /\ \E w \in CanWrite, r \in Replies("250") :
       /\ wdead' = (wdead \/ ~w)
       /\ rdead' = (rdead \/ ~w \/ r = "EOF")
       /\ acked' = (w /\ r = "250")
       /\ LegacyReturn(IF CmdErr("250", w, r) = "" THEN Nil
                       ELSE <<"message rejected by server", CmdErr("250", w, r)>>)
  /\ UNCHANGED <<input, web, resolved, mxRecords, dials, wire, tp, adv, msg>>

\* defer client.Quit(), and the return
LegacyDeferredQuit ==
  /\ engine = "LegacySend" /\ pc = "defer"
  /\ \E w \in CanWrite, r \in Replies("221") :
       /\ sendCommand("QUIT", <<>>, w, r)
       /\ ReturnAttempt(pending,
                        IF QuitCloses(w, r) THEN DeferredClose(conns) ELSE conns)
  /\ UNCHANGED <<input, web, loop, dials, tp, adv, msg, acked>>

\* ------------------------------------------------------------ SendViaSwaks

\* The arguments of the current SendViaSwaks call.
SwaksArgs == calls[Len(calls)]

Found(p) == [path |-> p, err |-> Nil]
NotFound(e) == [path |-> <<>>, err |-> e]

\* The first of the known locations that exists (0: none).
FirstKnown(fs) ==
  LET hits == {i \in 1..Len(knownPerlPaths) : knownPerlPaths[i] \in fs.files}
  IN  IF hits = {} THEN 0 ELSE CHOOSE i \in hits : \A j \in hits : i <= j

\* A variant of findPerl that goes on to the known locations and the system
\* path when the configured path does not exist.
findPerlFallsBack(perlPath, fs) ==
  IF perlPath # <<>> /\ perlPath \in fs.files THEN Found(perlPath)
  ELSE IF FirstKnown(fs) # 0 THEN Found(knownPerlPaths[FirstKnown(fs)])
  ELSE IF fs.lookPath # <<>> THEN Found(fs.lookPath)
  ELSE NotFound(<<"perl not found: set PERL_PATH or install Strawberry Perl">>)

\* findPerl(perlPath)
findPerl(perlPath, fs) ==
  IF perlPath # <<>>
    THEN IF perlPath \in fs.files THEN Found(perlPath)
         ELSE NotFound(<<"configured PERL_PATH not found">> \o perlPath)
  ELSE IF FirstKnown(fs) # 0 THEN Found(knownPerlPaths[FirstKnown(fs)])
  ELSE IF fs.lookPath # <<>> THEN Found(fs.lookPath)
  ELSE NotFound(<<"perl not found: set PERL_PATH or install Strawberry Perl">>)

\* filepath.IsAbs
IsAbs(p) == p # <<>> /\ p[1] \in {"/opt/swaks/", "/opt/perl/bin/", "/usr/bin/"}

\* resolveSwaksPath(swaksPath)
resolveSwaksPath(swaksPath, fs) ==
  IF IsAbs(swaksPath) THEN swaksPath
  ELSE IF fs.exe # "" /\ (<<fs.exe>> \o swaksPath) \in fs.files
         THEN <<fs.exe>> \o swaksPath
  ELSE <<Cwd>> \o swaksPath

\* A variant of the adapter that targets the last record.
LastRecord(recs) == recs[Len(recs)]

\* mxRecords[0], the record whose host the adapter delivers to.
SwaksTarget(recs) == recs[1]

\* The message SendViaSwaks builds for standard input.
SwaksCompose(a) ==
  << Header("From", <<a.displayName, "<">> \o a.displayFrom \o <<">">>),
     Header("Reply-To", <<a.displayName, "<">> \o a.displayFrom \o <<">">>),
     Header("To", a.to),
     Header("Subject", a.subject),
     Header("Date", <<"now">>),
     Header("Message-ID", <<"<", "now", "@">> \o senderDomain(a.displayFrom)
                            \o <<">">>),
     Header("MIME-Version", <<"1.0">>),
     Header("Content-Type", <<HtmlContentType>>),
     Header("body", a.body) >>

\* The argument list given to exec.Command(perl, args...).
\* Each option is written with its value; the script comes first.
Arg(flag, value) == [flag |-> flag, value |-> value]
SwaksCommandLine(a, swaks, mxHost) ==
  << Arg("", swaks), Arg("--to", a.to), Arg("--from", a.envelopeSender),
     Arg("--data", <<"-">>), Arg("--server", <<mxHost>>),
     Arg("--port", <<"25">>), Arg("--timeout", <<"30">>) >>

\* What the adapter never touches.
idle == <<mxIdx, lastErr, dials, conns, attempts, lastRet, tp, adv, sock, msg,
          acked, pending>>

\* findPerl, resolveSwaksPath and the os.Stat of the script.
SwaksLocate ==
  /\ engine = "SendViaSwaks" /\ pc = "start"
  /\ LET perl == findPerl(SwaksArgs.perlPath, fsys)
          swaks == resolveSwaksPath(SwaksArgs.swaksPath, fsys)
     IN  IF perl.err # Nil
           THEN ReturnTop(perl.err)
           ELSE IF swaks \notin fsys.files
                  THEN ReturnTop(<<"swaks.pl not found at">> \o swaks)
                  ELSE pc' = "lookup" /\ UNCHANGED <<returned, err>>
  /\ UNCHANGED <<input, web, idle, resolved, mxRecords>>

\* net.LookupMX and sort.Slice.
SwaksLookup ==
  /\ engine = "SendViaSwaks" /\ pc = "lookup"
  /\ IF ~dns.ok
       THEN /\ ReturnTop(<<"MX lookup failed for">> \o senderDomain(SwaksArgs.to)
                           \o <<"lookup error">>)
            /\ UNCHANGED <<resolved, mxRecords>>
       ELSE IF Len(dns.recs) = 0
              THEN /\ ReturnTop(<<"no MX records found for">>
                                  \o senderDomain(SwaksArgs.to))
                   /\ UNCHANGED <<resolved, mxRecords>>
              ELSE /\ resolved' = dns.recs
                   /\ mxRecords' \in SortSlice(dns.recs)
                   /\ pc' = "exec"
                   /\ UNCHANGED <<returned, err>>
  /\ UNCHANGED <<input, web, idle>>

\* exec.Command(perl, args...) with the message on standard input, and
\* cmd.CombinedOutput(): the subprocess exits with status 0 or not.
SwaksRun ==
  /\ engine = "SendViaSwaks" /\ pc = "exec"
  /\ LET perl == findPerl(SwaksArgs.perlPath, fsys).path
          swaks == resolveSwaksPath(SwaksArgs.swaksPath, fsys)
          mxHost == TrimDot(SwaksTarget(mxRecords).Host)
     IN  procs' = Append(procs, [path |-> perl,
                                 args |-> SwaksCommandLine(SwaksArgs, swaks, mxHost),
                                 stdin |-> SwaksCompose(SwaksArgs)])
  /\ \E exit \in {"0", "1"} :
       ReturnTop(IF exit = "0" THEN Nil
                 ELSE <<"swaks failed", "exit status 1", "Output">>)
  /\ UNCHANGED <<input, page, calls, idle, resolved, mxRecords>>

\* ------------------------------------------------------ the /send handler

\* len(strings.TrimSpace(body)) == 0
BlankBody(b) == b.blank

\* len(body): the number of bytes of the string.
ByteLen(b) == b.chars * b.width

\* The regular expression ^[a-zA-Z0-9._%+-]+@[a-zA-Z0-9.-]+\.[a-zA-Z]{2,}$ on
\* the form values used here: the words its first character class accepts,
\* and the words its domain part accepts.
LocalWords == {"bob", "user", "noat", "localhost"}
DomainWords == {"corp.example", "example.com"}
EmailRegexMatches(t) ==
  Len(t) = 3 /\ t[1] \in LocalWords /\ t[2] = "@" /\ t[3] \in DomainWords

\* A variant of the handler without the test for line breaks.
NeverCRLF(s) == FALSE

\* strings.ContainsAny(s, "\r\n")
ContainsCRLF(s) == \E i \in 1..Len(s) : s[i] \in {"CR", "LF"}

\* The checks of the handler in their order: the error it renders, or Nil.
Validate(f) ==
  IF f.method # "POST" THEN <<"Method not allowed">>
  ELSE IF f.to = <<>> \/ f.subject = <<>> \/ BlankBody(f.body)
    THEN <<"All fields are required (body must not be empty).">>
  ELSE IF ~EmailRegexMatches(f.to)
    THEN <<"Invalid recipient email format (must be user@domain.tld).">>
  ELSE IF ByteLen(f.body) > BodyLimit
    THEN <<"Body too long! Limit is 1000 characters">>
  ELSE IF ContainsCRLF(f.to) \/ ContainsCRLF(f.subject)
    THEN <<"Invalid input detected.">>
  ELSE Nil

\* emailTmpl.Execute(&buf, emailData): the rendered body, opaque to the client.
Render(f, e) ==
  << [tmpl |-> "email.html", Subject |-> f.subject, Body |-> f.body,
      TrackingURL |-> <<"/click?id=">> \o f.to,
      SenderName |-> e.SMTPSenderName, SenderEmail |-> e.SMTPSenderEmail] >>

\* The three signing values, blanked unless cfg.DKIMEnabled.
DkimValues(e) ==
  IF e.DKIMEnabled
    THEN [domain |-> e.DKIMDomain, selector |-> e.DKIMSelector,
          keyPath |-> e.DKIMPrivateKeyPath]
    ELSE [domain |-> "", selector |-> "", keyPath |-> ""]

\* smtp.NewClient(cfg.SMTPHost, ...)
NewClient(e) ==
  [Host |-> e.SMTPHost, Port |-> e.SMTPPort,
   Username |-> e.SMTPSenderUser, Password |-> e.SMTPSenderPass,
   EnvelopeSender |-> e.SMTPEnvelopeSender, SenderEmail |-> e.SMTPSenderEmail,
   SenderName |-> e.SMTPSenderName,
   DKIMDomain |-> DkimValues(e).domain, DKIMSelector |-> DkimValues(e).selector,
   DKIMKeyPath |-> DkimValues(e).keyPath,
   DirectMode |-> FALSE]

\* A variant of the dispatch with the three strategies of the three modes.
ThreeStrategies(e) ==
  CASE e.SMTPMode = "direct" -> "SendDirect"
    [] e.SMTPMode = "external" -> "SendViaSwaks"
    [] OTHER -> "Send"

\* if cfg.SMTPMode == "direct" { ... SendViaSwaks } else { client.Send }
StrategyFor(e) == IF e.SMTPMode = "direct" THEN "SendViaSwaks" ELSE "Send"

\* envelopeSender := to; if cfg.EnvelopeStrategy == "custom" { ... }
EnvelopeFor(e, rcpt) ==
  IF e.EnvelopeStrategy = "custom" THEN e.SMTPEnvelopeSender ELSE rcpt

\* The call the handler makes, with its arguments.
StrategyCall(e, f) ==
  IF StrategyFor(e) = "SendViaSwaks"
    THEN [fn |-> "SendViaSwaks",
          perlPath |-> e.PerlPath, swaksPath |-> e.SwaksPath, to |-> f.to,
          envelopeSender |-> EnvelopeFor(e, f.to),
          displayFrom |-> e.SMTPSenderEmail, displayName |-> e.SMTPSenderName,
          subject |-> f.subject, body |-> Render(f, e),
          dkimDomain |-> DkimValues(e).domain,
          dkimSelector |-> DkimValues(e).selector,
          dkimKeyPath |-> DkimValues(e).keyPath]
    ELSE [fn |-> StrategyFor(e), to |-> f.to, subject |-> f.subject,
          body |-> Render(f, e)]

\* The handler from the request to the call of the strategy.
HandleSend ==
  /\ pc = "request"
  /\ \E rendered \in BOOLEAN :
       IF Validate(form) # Nil
         THEN /\ page' = <<"Error">> \o Validate(form)
              /\ pc' = "responded"
              /\ UNCHANGED <<engine, cfg, to, subject, body, calls>>
         ELSE IF ~rendered
                THEN /\ page' = <<"Error", "Failed to render email">>
                     /\ pc' = "responded"
                     /\ UNCHANGED <<engine, cfg, to, subject, body, calls>>
                ELSE /\ cfg' = NewClient(env)
                     /\ engine' = StrategyFor(env)
                     /\ to' = form.to
                     /\ subject' = form.subject
                     /\ body' = Render(form, env)
                     /\ calls' = Append(calls, StrategyCall(env, form))
                     /\ pc' = "start"
                     /\ page' = page
  /\ UNCHANGED <<dns, form, env, fsys, other, procs, idle, resolved, mxRecords,
                 returned, err>>

\* The handler after the strategy returned.
HandleReply ==
  /\ pc = "done" /\ calls # <<>> /\ page = <<>>
  /\ page' = IF err # Nil THEN <<"Error", "Failed to send email">> \o err
             ELSE <<"Success", "Email successfully spoofed and sent!">>
  /\ pc' = "responded"
  /\ UNCHANGED <<input, calls, procs, idle, resolved, mxRecords, returned, err>>

Next ==
  \/ SendDial \/ SendGreeting \/ SendEhlo \/ SendStartTLS \/ SendPostTLSEhlo
  \/ SendAuthLogin \/ SendAuthUser \/ SendAuthPass \/ SendAuthPlain
  \/ SendMailFrom \/ SendRcptTo \/ SendData \/ SendWrite \/ SendFinal
  \/ SendQuit
  \/ SendDirectLookup \/ MxDial \/ MxGreeting \/ MxEhlo \/ MxStartTLS
  \/ MxPostTLSEhlo \/ MxMailFrom \/ MxRcptTo \/ MxData \/ MxWrite \/ MxFinal
  \/ MxQuit
  \/ LegacyLookup \/ LegacyDial \/ LegacyNewClient \/ LegacyEhlo \/ LegacyHelo
  \/ LegacyStartTLS \/ LegacyPostTLSEhlo \/ LegacyAuth \/ LegacyAuthAbort
  \/ LegacyAuthQuit \/ LegacyMail \/ LegacyRcpt \/ LegacyData \/ LegacyWrite
  \/ LegacyClose \/ LegacyDeferredQuit

Spec == Init /\ [][Next]_vars

\* The steps of the direct path.
NextMX ==
  \/ SendDirectLookup \/ MxDial \/ MxGreeting \/ MxEhlo \/ MxStartTLS
  \/ MxPostTLSEhlo \/ MxMailFrom \/ MxRcptTo \/ MxData \/ MxWrite \/ MxFinal
  \/ MxQuit

SpecMX == InitMX /\ [][NextMX]_vars

\* The external adapter called with the arguments the handler gives it, under
\* every state of the files and every answer of the resolver.
SwaksEnvs ==
  {[DefaultEnv EXCEPT !.SMTPMode = "direct", !.EnvelopeStrategy = st,
                      !.DKIMEnabled = d, !.PerlPath = pp, !.SwaksPath = sp] :
     st \in {"match-recipient", "custom"}, d \in BOOLEAN,
     pp \in {<<>>, PerlConfigured}, sp \in {SwaksRel, SwaksAbs}}

DirectForm(rcpt) ==
  [method |-> "POST", to |-> rcpt, subject |-> <<Subject>>,
   body |-> FormBody(5, 1, FALSE)]

InitSwaks ==
  /\ engine = "SendViaSwaks"
  /\ env \in SwaksEnvs
  /\ fsys \in FileSystems
  /\ dns \in MXAnswers
  /\ to \in Recipients
  /\ form = DirectForm(to)
  /\ cfg = NewClient(env)
  /\ subject = form.subject
  /\ body = Render(form, env)
  /\ calls = <<StrategyCall(env, form)>>
  /\ pc = "start"
  /\ Quiet

NextSwaks == SwaksLocate \/ SwaksLookup \/ SwaksRun

SpecSwaks == InitSwaks /\ [][NextSwaks]_vars

\* A request to the /send handler, from the form to the rendered page.
WebFileSystems ==
  {NoFiles,
   [files |-> {knownPerlPaths[2], <<Cwd>> \o SwaksRel}, lookPath |-> <<>>,
    exe |-> ExeDir]}
WebAnswers == {a \in SingleAnswers : a.ok => Len(a.recs) = 1}

InitWeb ==
  /\ engine = "none"
  /\ cfg = BaseCfg
  /\ to = <<>>
  /\ subject = <<>>
  /\ body = <<>>
  /\ form \in Forms
  /\ env \in WebEnvs
  /\ fsys \in WebFileSystems
  /\ dns \in WebAnswers
  /\ calls = <<>>
  /\ pc = "request"
  /\ Quiet

NextWeb ==
  \/ HandleSend \/ HandleReply
  \/ SendDial \/ SendGreeting \/ SendEhlo \/ SendStartTLS \/ SendPostTLSEhlo
  \/ SendAuthLogin \/ SendAuthUser \/ SendAuthPass \/ SendAuthPlain
  \/ SendMailFrom \/ SendRcptTo \/ SendData \/ SendWrite \/ SendFinal
  \/ SendQuit
  \/ SwaksLocate \/ SwaksLookup \/ SwaksRun

SpecWeb == InitWeb /\ [][NextWeb]_vars


\* The client's entry points called with the addresses of TestSenderDomain
\* (and one that ends in "@") as the configured sender and as the recipient.
DomainAddrs ==
  { <<"user", "@", "example.com">>,
    <<"ceo", "@", "whitehouse.gov">>,
    <<"noat">>,
    <<>>,
    <<"multi", "@", "at", "@", "domain.com">>,
    <<"user", "@">> }
DomainCfgs ==
  {[BaseCfg EXCEPT !.EnvelopeSender = a, !.SenderEmail = a] : a \in DomainAddrs}

InitDomain ==
  /\ engine \in Engines
  /\ cfg \in IF engine = "LegacySend"
               THEN DomainCfgs \cup {[c EXCEPT !.DirectMode = TRUE] : c \in DomainCfgs}
               ELSE DomainCfgs
  /\ dns \in IF UsesResolver(engine, cfg) THEN SingleAnswers ELSE {DNSError}
  /\ to \in DomainAddrs
  /\ subject = <<Subject>>
  /\ body = <<Body>>
  /\ form = NoForm
  /\ env = DefaultEnv
  /\ fsys = NoFiles
  /\ calls = <<>>
  /\ pc = "start"
  /\ Quiet

SpecDomain == InitDomain /\ [][Next]_vars


\* A valid request to the /send handler of a process started in each of the
\* environments of OsEnvs.
InitLoad ==
  /\ engine = "none"
  /\ cfg = BaseCfg
  /\ to = <<>>
  /\ subject = <<>>
  /\ body = <<>>
  /\ form = DirectForm(<<"bob", "@", "corp.example">>)
  /\ env \in {Load(o) : o \in OsEnvs}
  /\ fsys \in WebFileSystems
  /\ dns \in WebAnswers
  /\ calls = <<>>
  /\ pc = "request"
  /\ Quiet

SpecLoad == InitLoad /\ [][NextWeb]_vars


\* Every delivery path: the entry points of the two clients, and the external
\* adapter.
InitPaths == Init \/ InitSwaks
NextPaths == Next \/ NextSwaks
SpecPaths == InitPaths /\ [][NextPaths]_vars


\* ------------------------------------------ two requests served at a time

\* What one call of an entry point holds: its receiver and arguments, its
\* position, and its locals (conn, tp, msg, err, ...).
SendState ==
  [engine |-> engine, cfg |-> cfg, to |-> to, subject |-> subject,
   body |-> body, pc |-> pc, resolved |-> resolved, mxRecords |-> mxRecords,
   mxIdx |-> mxIdx, lastErr |-> lastErr, dials |-> dials, conns |-> conns,
   attempts |-> attempts, lastRet |-> lastRet, tp |-> tp, adv |-> adv,
   wire |-> wire, wdead |-> wdead, rdead |-> rdead, msg |-> msg,
   acked |-> acked, pending |-> pending, returned |-> returned, err |-> err]

\* A variant in which the calls write to one connection: the call that goes
\* on continues on the connection of the call that ran last.
SharedSocket(s) ==
  [s EXCEPT !.tp = tp, !.wire = wire, !.wdead = wdead, !.rdead = rdead]

\* conn, tp and the sendCommand closure are locals of the call, the Client
\* is built by the handler for the request: a call goes on with its own.
Locals(s) == s

\* net/http serves every request in its own goroutine: the scheduler lets the
\* other call run.
Switch ==
  /\ other # <<>>
  /\ LET s == Locals(other)
     IN  /\ engine' = s.engine /\ cfg' = s.cfg /\ to' = s.to
         /\ subject' = s.subject /\ body' = s.body /\ pc' = s.pc
         /\ resolved' = s.resolved /\ mxRecords' = s.mxRecords
         /\ mxIdx' = s.mxIdx /\ lastErr' = s.lastErr
         /\ dials' = s.dials /\ conns' = s.conns
         /\ attempts' = s.attempts /\ lastRet' = s.lastRet
         /\ tp' = s.tp /\ adv' = s.adv
         /\ wire' = s.wire /\ wdead' = s.wdead /\ rdead' = s.rdead
         /\ msg' = s.msg /\ acked' = s.acked /\ pending' = s.pending
         /\ returned' = s.returned /\ err' = s.err
  /\ other' = SendState
  /\ UNCHANGED <<dns, form, env, fsys, page, calls, procs>>

\* The recipients of the two requests, and the Client of the second.
PairRecipients == {<<"bob", "@", "corp.example">>, <<"alice", "@", "corp.example">>}
PairCfgs ==
  {BaseCfg,
   [BaseCfg EXCEPT !.Username = "", !.EnvelopeSender = AddrSpoofed,
                   !.SenderEmail = AddrEnvelope]}

\* Two calls of Client.Send, neither of which has taken a step.
InitPair ==
  /\ engine = "Send"
  /\ cfg = BaseCfg
  /\ dns = DNSError
  /\ to = <<"bob", "@", "corp.example">>
  /\ subject = <<Subject>>
  /\ body = <<Body>>
  /\ form = NoForm
  /\ env = DefaultEnv
  /\ fsys = NoFiles
  /\ calls = <<>>
  /\ pc = "start"
  /\ Fresh
  /\ page = <<>>
  /\ procs = <<>>
  /\ other \in {[SendState EXCEPT !.to = <<"alice", "@", "corp.example">>,
                                  !.cfg = c] : c \in PairCfgs}

NextPair ==
  \/ SendDial \/ SendGreeting \/ SendEhlo \/ SendStartTLS \/ SendPostTLSEhlo
  \/ SendAuthLogin \/ SendAuthUser \/ SendAuthPass \/ SendAuthPlain
  \/ SendMailFrom \/ SendRcptTo \/ SendData \/ SendWrite \/ SendFinal
  \/ SendQuit
  \/ Switch

SpecPair == InitPair /\ [][NextPair]_vars


\* ------------------------------------------------------------------ claims

\* The latest engine attempt has returned and nothing has followed it.
AttemptReturned == Len(attempts) > 0 /\ pc \in {"done", "dial"}

Sent(c) == {i \in 1..Len(wire) : wire[i].cmd = c}

OnlyDisplayDiffers(c1, c2) ==
  [c1 EXCEPT !.SenderEmail = c2.SenderEmail, !.SenderName = c2.SenderName] = c2
OnlyEnvelopeDiffers(c1, c2) ==
  [c1 EXCEPT !.EnvelopeSender = c2.EnvelopeSender] = c2

\* C1: on the relay path the MAIL FROM command carries the configured
\* envelope sender and the From and Reply-To headers carry the configured
\* display name and address; a configuration that differs only in the display
\* fields gives the same MAIL FROM, one that differs only in the envelope
\* sender gives the same From and Reply-To.
C1_EnvelopeIndependentOfDisplay ==
  engine = "Send" =>
    /\ \A i \in Sent("MAIL FROM") :
         /\ wire[i].arg = cfg.EnvelopeSender
         /\ \A c2 \in Configs :
              OnlyDisplayDiffers(cfg, c2) => SendMailFromArg(c2) = wire[i].arg
    /\ \A i \in 1..Len(msg) :
         msg[i].k \in {"From", "Reply-To"} =>
           /\ msg[i].v = <<cfg.SenderName, "<">> \o cfg.SenderEmail \o <<">">>
           /\ \A c2 \in Configs :
                OnlyEnvelopeDiffers(cfg, c2) => FromValue(c2) = msg[i].v
    /\ Len(msg) > 0 =>
         /\ Cardinality({i \in 1..Len(msg) : msg[i].k = "From"}) = 1
         /\ Cardinality({i \in 1..Len(msg) : msg[i].k = "Reply-To"}) = 1

C1_Witness ==
  /\ engine = "Send" /\ returned /\ err = Nil
  /\ cfg.EnvelopeSender # cfg.SenderEmail
  /\ Sent("MAIL FROM") # {}
  /\ Len(msg) > 0

\* The address sendToMX is called with for record i.
MxAddr(i) == <<TrimDot(mxRecords[i].Host), "25">>

\* C2: SendDirect contacts the hosts one at a time in the sorted order and
\* stops at the first success: when attempt k is the first to succeed,
\* SendDirect has returned nil after exactly k connects, to the first k hosts.
C2_StopsAtFirstSuccess ==
  engine = "SendDirect" =>
    /\ Len(dials) <= Len(mxRecords)
    /\ \A i \in 1..Len(dials) : dials[i] = MxAddr(i)
    /\ \A k \in 1..Len(attempts) :
         attempts[k] = "ok" =>
           /\ returned /\ err = Nil
           /\ Len(attempts) = k /\ Len(dials) = k
           /\ \A j \in 1..(k - 1) : attempts[j] = "failed"

C2_Witness ==
  /\ engine = "SendDirect" /\ returned /\ err = Nil
  /\ Len(mxRecords) = 3
  /\ attempts = <<"failed", "failed", "ok">>
  /\ Len(dials) = 3

\* Position of a host in the resolver's answer.
ResolvedPos(h) == CHOOSE i \in 1..Len(resolved) : resolved[i].Host = h

C4_AllFailedWrapsLastOnly ==
  (engine = "SendDirect" /\ returned /\ err # Nil /\ Len(mxRecords) > 0) =>
    /\ err = <<"all MX servers failed, last error">> \o lastRet
    /\ lastRet # Nil
    /\ Len(attempts) = Len(mxRecords)
    /\ \A k \in 1..Len(attempts) : attempts[k] = "failed"
    /\ dials = [i \in 1..Len(mxRecords) |-> MxAddr(i)]

C4_Witness ==
  /\ engine = "SendDirect" /\ returned /\ err # Nil
  /\ Len(mxRecords) = 3
  /\ attempts = <<"failed", "failed", "failed">>
  /\ lastRet = <<"RCPT TO failed", "550">>

\* C5: on the relay path AUTH PLAIN is sent only right after an AUTH LOGIN
\* command that was not answered 334; once AUTH LOGIN was answered 334, a
\* rejected username or password step ends the send with an error and nothing
\* more is sent.
C5_NoFallbackAfterLoginStarted ==
  engine = "Send" =>
    /\ \A i \in Sent("AUTH PLAIN") :
         i > 1 /\ wire[i - 1].cmd = "AUTH LOGIN" /\ wire[i - 1].reply # "334"
    /\ \A i \in 1..Len(wire) :
         (\/ wire[i].cmd = "LOGIN username" /\ wire[i].reply # "334"
          \/ wire[i].cmd = "LOGIN password" /\ wire[i].reply # "235") =>
           i = Len(wire) /\ returned /\ err # Nil

C5_Witness ==
  /\ engine = "Send" /\ returned /\ err # Nil
  /\ \E i \in Sent("AUTH LOGIN") : wire[i].reply = "334"
  /\ \E i \in Sent("LOGIN password") : wire[i].reply = "550"
  /\ Sent("AUTH PLAIN") = {}

AuthErrors ==
  {"AUTH failed", "AUTH LOGIN username rejected", "AUTH LOGIN password rejected"}

C7_OkIffAccepted ==
  /\ AttemptReturned => (lastRet = Nil <=> acked)
  /\ returned => (err = Nil <=> acked)

C7_Witness ==
  /\ returned /\ err = Nil /\ acked
  /\ wire[Len(wire)].cmd = "QUIT" /\ wire[Len(wire)].reply # "221"

\* C8: the connection of every attempt that has returned is closed.
C8_ReturnedAttemptsClosed ==
  \A i \in 1..Len(conns) : i <= Len(attempts) => conns[i] # "open"

\* C9: a STARTTLS command is on the wire only if the hello reply before it
\* advertised STARTTLS.
C9_StartTLSOnlyIfAdvertised ==
  (Len(wire) > 0 /\ wire[Len(wire)].cmd = "STARTTLS") => adv

\* C10: no attempt returns an error for a failed upgrade.
C10_UpgradeFailureNeverAborts ==
  (AttemptReturned /\ lastRet # Nil) => lastRet[1] # "post-TLS EHLO failed"

\* C11: QUIT is attempted before an attempt returns, however its data phase
\* ended: an attempt that sent DATA and returns on a connection that still
\* takes writes has written QUIT; and the outcome of QUIT is ignored, an
\* accepted message giving a nil return.
C11_QuitOnEveryDataPhaseExit ==
  (AttemptReturned /\ Sent("DATA") # {}) =>
    /\ ~wdead => Sent("QUIT") # {}
    /\ acked => lastRet = Nil

\* The DATA command of the attempt, as written on the connection.
DataCmd == wire[CHOOSE i \in Sent("DATA") : TRUE]

\* An attempt that sent DATA has returned an error of the data phase itself
\* (not of the signing step).
DataPhaseFailed ==
  /\ AttemptReturned /\ Sent("DATA") # {}
  /\ lastRet # Nil /\ lastRet[1] # "DKIM signing"

RejectedNames ==
  {"message rejected", "message rejected by", "message rejected by server"}

\* C12 as claimed: every failure inside the data phase (DATA not answered
\* 354, a failed write of the message or terminator, a final reply other
\* than 250) is reported as a "message rejected" error.
C12_DataPhaseFailuresAreRejected ==
  DataPhaseFailed => lastRet[1] \in RejectedNames

\* C12 as amended: a failure inside the data phase is reported under the name
\* of the step that failed, with the underlying error text attached: "DATA
\* failed" when DATA is not answered 354, a "failed to write" or "failed to
\* flush" error when the write fails, and "message rejected" only when the
\* message was written and then not accepted.
C12_DataPhaseFailuresNameTheStep ==
  DataPhaseFailed =>
    /\ DataCmd.reply # "354" =>
          lastRet = <<IF engine = "LegacySend" THEN "DATA command failed"
                      ELSE "DATA failed", DataCmd.reply>>
    /\ (DataCmd.reply = "354" /\ msg = <<>>) =>
          /\ lastRet[1] \in IF engine = "LegacySend" THEN {"failed to write body"}
                             ELSE WriteErrors
          /\ lastRet[2] = "write failed"
    /\ msg # <<>> =>
          /\ ~acked
          /\ lastRet[1] = CASE engine = "Send" -> "message rejected"
                             [] engine = "SendDirect" -> "message rejected by"
                             [] OTHER -> "message rejected by server"
          /\ lastRet[Len(lastRet)] \in {"550", "EOF", "write failed"}
          /\ lastRet[Len(lastRet)] = "write failed" => engine = "LegacySend"

C12_Witness ==
  /\ engine = "Send" /\ returned
  /\ Sent("DATA") # {} /\ DataCmd.reply = "550"
  /\ err = <<"DATA failed", "550">>

\* The unsigned message of the built-in engine for the current request.
Composed ==
  Compose(cfg, to, senderDomain(IF engine = "Send" THEN cfg.EnvelopeSender
                                ELSE cfg.SenderEmail))

SignatureHeaders == {i \in 1..Len(msg) : msg[i].k = "DKIM-Signature"}

AllSigningFieldsSet ==
  cfg.DKIMDomain # "" /\ cfg.DKIMSelector # "" /\ cfg.DKIMKeyPath # ""

\* C13: the signing gate of the built-in engine is all-or-nothing.  When one
\* of domain, selector and key path is empty, the message written is exactly
\* the composed message and no attempt fails in the signing module; when all
\* three are set and signing succeeds, the message written is the composed
\* message behind exactly one signature header.
C13_SigningGateAllOrNothing ==
  engine \in {"Send", "SendDirect"} =>
    /\ msg # <<>> =>
          IF AllSigningFieldsSet
            THEN SignatureHeaders = {1} /\ Tail(msg) = Composed
            ELSE SignatureHeaders = {} /\ msg = Composed
    /\ (AttemptReturned /\ lastRet # Nil /\ lastRet[1] = "DKIM signing") =>
          AllSigningFieldsSet

C13_Witness ==
  /\ engine = "Send" /\ returned /\ err = Nil
  /\ AllSigningFieldsSet
  /\ SignatureHeaders = {1} /\ Tail(msg) = Composed

\* The signing values are all configured for the request.
SigningConfigured ==
  /\ env.DKIMEnabled
  /\ env.DKIMDomain # "" /\ env.DKIMSelector # "" /\ env.DKIMPrivateKeyPath # ""

\* The message of a subprocess goes in on standard input and is no argument:
\* the arguments are the script and the six options, --data being "-".
OnStandardInputOnly(p) ==
  /\ p.stdin # <<>>
  /\ [j \in 1..Len(p.args) |-> p.args[j].flag] =
       <<"", "--to", "--from", "--data", "--server", "--port", "--timeout">>
  /\ p.args[4].value = <<"-">>

\* C14: on the external path, when domain, selector and key path are all
\* configured, the bytes piped to the subprocess carry the signature header;
\* the message is never a command-line argument.
C14_ExternalMessageSigned ==
  \A i \in 1..Len(procs) :
    /\ OnStandardInputOnly(procs[i])
    /\ SigningConfigured =>
         \E j \in 1..Len(procs[i].stdin) : procs[i].stdin[j].k = "DKIM-Signature"

\* C15 as claimed: the handler calls Send in mode "relay", SendDirect in mode
\* "direct" and SendViaSwaks in mode "external", one strategy per request.
C15_ThreeStrategiesByMode ==
  /\ Len(calls) <= 1
  /\ \A i \in 1..Len(calls) :
       calls[i].fn = CASE env.SMTPMode = "relay" -> "Send"
                       [] env.SMTPMode = "direct" -> "SendDirect"
                       [] OTHER -> "SendViaSwaks"

\* The handler got as far as calling a strategy.
Dispatched == Validate(form) = Nil /\ page # <<"Error", "Failed to render email">>

\* C15 as amended: the handler calls one of two strategies: SendViaSwaks in
\* mode "direct", Send in every other mode; a request that passes the checks
\* makes exactly one call, only the called strategy does anything, and
\* SendDirect is never called.
C15_TwoStrategiesByMode ==
  /\ Len(calls) <= 1
  /\ \A i \in 1..Len(calls) :
       /\ calls[i].fn = IF env.SMTPMode = "direct" THEN "SendViaSwaks" ELSE "Send"
       /\ engine = calls[i].fn
       /\ calls[i].fn = "Send" => procs = <<>>
       /\ calls[i].fn = "SendViaSwaks" => dials = <<>>
  /\ calls = <<>> => (engine = "none" /\ procs = <<>> /\ dials = <<>>)
  /\ (pc = "responded" /\ Dispatched) => Len(calls) = 1

C15_Witness ==
  /\ pc = "responded" /\ page[1] = "Success"
  /\ env.SMTPMode = "external"
  /\ Len(calls) = 1 /\ calls[1].fn = "Send" /\ dials # <<>>

\* The envelope sender the configured policy asks for.
PolicyEnvelope ==
  IF env.EnvelopeStrategy = "custom" THEN env.SMTPEnvelopeSender ELSE to

\* C16: on the direct and external paths the envelope sender of the
\* transaction is the recipient's address, or under "custom" the configured
\* envelope address: it is the argument of every MAIL FROM of SendDirect and
\* the --from value of every subprocess.
C16_EnvelopeFollowsPolicy ==
  /\ engine = "SendDirect" =>
       \A i \in Sent("MAIL FROM") : wire[i].arg = PolicyEnvelope
  /\ \A i \in 1..Len(procs) : procs[i].args[3].value = PolicyEnvelope

\* The smallest preference value among the records the resolver returned.
LowestPref == CHOOSE p \in {resolved[i].Pref : i \in 1..Len(resolved)} :
                \A i \in 1..Len(resolved) : p <= resolved[i].Pref

\* C17: the external adapter starts at most one subprocess per send, against
\* a host of the lowest preference value among the resolved records, and when
\* that delivery fails it returns the error with no further subprocess.
C17_FirstPreferenceHostOnly ==
  engine = "SendViaSwaks" =>
    /\ Len(procs) <= 1
    /\ \A i \in 1..Len(procs) :
         \E k \in 1..Len(resolved) :
           /\ resolved[k].Pref = LowestPref
           /\ procs[i].args[5].value = <<TrimDot(resolved[k].Host)>>
    /\ (returned /\ procs # <<>>) =>
         err \in {Nil, <<"swaks failed", "exit status 1", "Output">>}
    /\ (pc = "done" /\ mxRecords # <<>>) => Len(procs) = 1

C17_Witness ==
  /\ engine = "SendViaSwaks" /\ returned
  /\ err = <<"swaks failed", "exit status 1", "Output">>
  /\ Len(resolved) = 3 /\ resolved[1].Pref = 20 /\ resolved[3].Pref = 10
  /\ Len(procs) = 1 /\ procs[1].args[5].value = <<"mx3">>

\* The lookup of the interpreter has run and failed.
PerlLookupFailed ==
  returned /\ err # Nil
    /\ err[1] \in {"configured PERL_PATH not found",
                   "perl not found: set PERL_PATH or install Strawberry Perl"}

KnownPerlExists == \E i \in 1..Len(knownPerlPaths) : knownPerlPaths[i] \in fsys.files
PerlSomewhereElse == KnownPerlExists \/ fsys.lookPath # <<>>

\* C18 as claimed: the lookup fails only after the configured path, the known
\* locations and the system path are all exhausted: with an interpreter at a
\* known location or on the system path it succeeds, also when a configured
\* path is set and does not exist.
C18_LookupExhaustsAllSources ==
  (engine = "SendViaSwaks" /\ pc # "start" /\ PerlSomewhereElse) =>
    ~PerlLookupFailed

\* C18 as amended: a configured path is used alone: the lookup succeeds with
\* it when it exists and fails when it does not, whatever else is installed.
\* Without a configured path the lookup takes the first known location that
\* exists, then the system path, and fails only when neither has one.
C18_ConfiguredPathIsExclusive ==
  (engine = "SendViaSwaks" /\ pc # "start") =>
    /\ IF SwaksArgs.perlPath # <<>>
         THEN /\ PerlLookupFailed <=> SwaksArgs.perlPath \notin fsys.files
              /\ PerlLookupFailed =>
                   err = <<"configured PERL_PATH not found">> \o SwaksArgs.perlPath
              /\ \A i \in 1..Len(procs) : procs[i].path = SwaksArgs.perlPath
         ELSE /\ PerlLookupFailed <=> ~PerlSomewhereElse
              /\ \A i \in 1..Len(procs) :
                   procs[i].path =
                     IF knownPerlPaths[1] \in fsys.files THEN knownPerlPaths[1]
                     ELSE IF knownPerlPaths[2] \in fsys.files THEN knownPerlPaths[2]
                     ELSE fsys.lookPath

C18_Witness ==
  /\ engine = "SendViaSwaks" /\ returned
  /\ SwaksArgs.perlPath = PerlConfigured
  /\ err = <<"configured PERL_PATH not found">> \o PerlConfigured
  /\ knownPerlPaths[1] \in fsys.files /\ fsys.lookPath = PerlOnPath

\* The handler turned the request down for the length of its body.
TooLong == page # <<>> /\ page[2] = "Body too long! Limit is 1000 characters"

\* No lookup, no connection, no subprocess.
NoNetworkIO == calls = <<>> /\ resolved = <<>> /\ dials = <<>> /\ procs = <<>>

\* C19: a body of 1000 characters passes the length check; a body of 1001
\* characters is turned down, before any network input or output.
C19_BodyLengthBoundary ==
  /\ form.body.chars = 1000 => ~TooLong
  /\ form.body.chars = 1001 =>
       /\ NoNetworkIO
       /\ pc # "request" => page[1] = "Error"

\* The value holds a carriage return or a line feed.
HasLineBreak(s) == \E i \in 1..Len(s) : s[i] = "CR" \/ s[i] = "LF"

\* C20: a request whose recipient or whose subject holds CR or LF is turned
\* down before anything is built: no strategy is called, nothing is looked
\* up, dialled, written or started; and no To or Subject header of any
\* message holds a line break.
C20_LineBreaksRejected ==
  /\ (HasLineBreak(form.to) \/ HasLineBreak(form.subject)) =>
       /\ NoNetworkIO /\ engine = "none" /\ wire = <<>> /\ msg = <<>>
       /\ pc # "request" => page[1] = "Error"
  /\ \A i \in 1..Len(msg) :
       msg[i].k \in {"To", "Subject"} => ~HasLineBreak(msg[i].v)
  /\ \A p \in 1..Len(procs) : \A i \in 1..Len(procs[p].stdin) :
       procs[p].stdin[i].k \in {"To", "Subject"} =>
         ~HasLineBreak(procs[p].stdin[i].v)

C20_Witness ==
  /\ pc = "responded"
  /\ form.to = <<"bob", "@", "corp.example">>
  /\ form.subject = <<"test", "LF", "newline">>
  /\ page = <<"Error", "Invalid input detected.">>
  /\ NoNetworkIO

\* The rule of domain extraction: what follows the last "@" of the address,
\* "localhost" for an address without one.
AfterLastAt(a) ==
  IF \E i \in 1..Len(a) : a[i] = "@"
    THEN CHOOSE d \in {SubSeq(a, i + 1, Len(a)) : i \in 1..Len(a)} :
           /\ a[Len(a) - Len(d)] = "@"
           /\ \A j \in 1..Len(d) : d[j] # "@"
    ELSE <<"localhost">>

\* The address an entry point takes its hello and Message-ID domain from.
DomainAddress == IF engine = "Send" THEN cfg.EnvelopeSender ELSE cfg.SenderEmail

\* The domain a Message-ID value ends with: what stands between its "@"
\* separator and the closing bracket.
MessageIdDomain(v) ==
  LET at == CHOOSE i \in 1..Len(v) : v[i] = "@" /\ \A j \in 1..(i - 1) : v[j] # "@"
  IN  SubSeq(v, at + 1, Len(v) - 1)

\* The call ended at the lookup: the resolver failed or answered no record.
LookupEnded ==
  returned /\ UsesResolver(engine, cfg) /\ (~dns.ok \/ dns.recs = <<>>)

\* C21: every domain derived from an address is what follows the last "@" of
\* that address, and "localhost" when the address has no "@": the hello
\* domain, the Message-ID domain, and the recipient domain that is looked up.
C21_DomainAfterLastAt ==
  /\ \A i \in 1..Len(wire) :
       (wire[i].cmd = "EHLO" /\ engine # "LegacySend") =>
         wire[i].arg = AfterLastAt(DomainAddress)
  /\ \A i \in 1..Len(msg) :
       msg[i].k = "Message-ID" =>
         MessageIdDomain(msg[i].v) = AfterLastAt(DomainAddress)
  /\ LookupEnded =>
       err = (IF dns.ok THEN <<"no MX records found for">> \o AfterLastAt(to)
              ELSE <<"MX lookup failed for">> \o AfterLastAt(to)
                     \o <<"lookup error">>)

\* C22: the envelope sender is populated before a transaction starts: every
\* MAIL FROM command written carries a non-empty address, and so does the
\* --from argument of every subprocess started, whatever the environment of
\* the process.
C22_EnvelopeSenderPopulated ==
  /\ \A i \in 1..Len(wire) : wire[i].cmd = "MAIL FROM" => wire[i].arg # <<>>
  /\ \A p \in 1..Len(procs) : \A i \in 1..Len(procs[p].args) :
       procs[p].args[i].flag = "--from" => procs[p].args[i].value # <<>>

\* The values of the Content-Type headers of the messages composed so far:
\* the one written after DATA and the ones given to a subprocess.
ContentTypes ==
  {msg[i].v : i \in {j \in 1..Len(msg) : msg[j].k = "Content-Type"}}
    \cup UNION {{procs[p].stdin[i].v :
                   i \in {j \in 1..Len(procs[p].stdin) :
                            procs[p].stdin[j].k = "Content-Type"}} :
                p \in 1..Len(procs)}

\* The call runs on the authenticated relay path.
RelayPath == engine = "Send" \/ (engine = "LegacySend" /\ ~cfg.DirectMode)

\* C23: the Content-Type of the composed message is plain text on the
\* authenticated relay path and HTML on the direct and external paths.
C23_ContentTypeByPath ==
  \A v \in ContentTypes :
    v = IF RelayPath THEN <<"text/plain; charset=UTF-8">>
        ELSE <<"text/html; charset=UTF-8">>

\* C23 as amended: the Content-Type is HTML on the relay path (Send), the
\* direct path (sendToMX) and the external path (SendViaSwaks) alike; only
\* the net/smtp-based Send writes plain text, in relay and in direct mode.
C23_ContentTypeByClient ==
  \A v \in ContentTypes :
    v = IF engine = "LegacySend" THEN <<"text/plain; charset=UTF-8">>
        ELSE <<"text/html; charset=UTF-8">>

C23_Witness ==
  /\ engine = "Send" /\ returned /\ err = Nil /\ acked
  /\ ContentTypes = {<<"text/html; charset=UTF-8">>}

\* The call made for the recipient r: the one running, or the one waiting.
CallFor(r) == IF to = r THEN SendState ELSE other

\* A step in which the call for r moved: that call is the one running, before
\* and after it; the step is a step of the client as it takes it alone, from
\* its own receiver, arguments and locals; and the other call is as it was.
OwnStep(r) ==
  CallFor(r)' # CallFor(r) =>
    /\ to = r /\ to' = r
    /\ Next
    /\ other' = other

Expected(c) ==
  CASE c \in {"EHLO", "MAIL FROM", "RCPT TO"} -> "250"
    [] c = "STARTTLS" -> "220"
    [] c \in {"AUTH LOGIN", "LOGIN username"} -> "334"
    [] c \in {"LOGIN password", "AUTH PLAIN"} -> "235"
    [] c = "DATA" -> "354"
    [] c = "QUIT" -> "221"

\* The place of the i-th command of the session in the fixed order.
Rank(i) ==
  CASE wire[i].cmd = "EHLO" -> IF i = 1 THEN 1 ELSE 3
    [] wire[i].cmd = "STARTTLS" -> 2
    [] wire[i].cmd = "AUTH LOGIN" -> 4
    [] wire[i].cmd = "LOGIN username" -> 5
    [] wire[i].cmd = "LOGIN password" -> 6
    [] wire[i].cmd = "AUTH PLAIN" -> 7
    [] wire[i].cmd = "MAIL FROM" -> 8
    [] wire[i].cmd = "RCPT TO" -> 9
    [] wire[i].cmd = "DATA" -> 10
    [] wire[i].cmd = "QUIT" -> 11

RawClient == engine \in {"Send", "SendDirect"}

\* The commands of the session stand in the fixed order, none twice: the
\* hello first and again only after an accepted STARTTLS, one MAIL FROM and
\* one RCPT TO before DATA; the message is written only after 354, and QUIT
\* only after the message was accepted.
InFixedOrder ==
  /\ \A i, j \in 1..Len(wire) : i < j => Rank(i) < Rank(j)
  /\ \A i \in 1..Len(wire) :
       /\ (i = 1) => wire[i].cmd = "EHLO"
       /\ (wire[i].cmd = "EHLO" /\ i > 1) =>
            wire[i - 1].cmd = "STARTTLS" /\ wire[i - 1].reply = "220"
       /\ wire[i].cmd = "DATA" =>
            /\ i > 2
            /\ wire[i - 1].cmd = "RCPT TO" /\ wire[i - 2].cmd = "MAIL FROM"
       /\ wire[i].cmd = "QUIT" => acked
  /\ msg # <<>> =>
       \E i \in 1..Len(wire) : wire[i].cmd = "DATA" /\ wire[i].reply = "354"
  /\ acked => msg # <<>>

\* C25: the commands of a session are issued in the fixed order, and every
\* command that is followed by another one was answered with the reply it
\* requires: nothing is sent after a step that received another code.
C25_EveryStepGated ==
  RawClient =>
    /\ InFixedOrder
    /\ \A i \in 1..(Len(wire) - 1) : wire[i].reply = Expected(wire[i].cmd)

\* C25 as amended: the same, but for the two steps whose refusal does not end
\* the attempt: after a STARTTLS not answered with 220 the session goes on
\* with the next step on the plaintext channel, and after an AUTH LOGIN not
\* answered with 334 the one command that follows is AUTH PLAIN.
C25_StepsGatedButUpgradeAndLogin ==
  RawClient =>
    /\ InFixedOrder
    /\ \A i \in 1..(Len(wire) - 1) :
         \/ wire[i].reply = Expected(wire[i].cmd)
         \/ /\ wire[i].cmd = "STARTTLS"
            /\ wire[i + 1].cmd \in {"AUTH LOGIN", "MAIL FROM"}
            /\ wire[i + 1].ch = "plain"
         \/ /\ wire[i].cmd = "AUTH LOGIN"
            /\ wire[i + 1].cmd = "AUTH PLAIN"
    /\ \A i \in 2..Len(wire) :
         wire[i].cmd = "AUTH PLAIN" =>
           wire[i - 1].cmd = "AUTH LOGIN" /\ wire[i - 1].reply # "334"

C25_Witness ==
  /\ engine = "Send" /\ returned /\ err = Nil
  /\ \E i \in 1..Len(wire) : wire[i].cmd = "STARTTLS" /\ wire[i].reply = "550"
  /\ \E i \in 1..Len(wire) : wire[i].cmd = "AUTH LOGIN" /\ wire[i].reply = "550"
  /\ wire[Len(wire)].cmd = "QUIT"

\* The commands of an authentication exchange.
AuthCmds == {"AUTH LOGIN", "LOGIN username", "LOGIN password", "AUTH PLAIN", "*"}

\* C26: an AUTH command is written only on the authenticated relay path and
\* only when the username and the password are both non-empty; with either
\* one empty a relay session goes from the hello or upgrade step straight to
\* MAIL FROM; and the direct path never writes one, whatever the credentials.
C26_AuthOnlyWithBothCredentials ==
  /\ \A i \in 1..Len(wire) :
       wire[i].cmd \in AuthCmds =>
         /\ RelayPath
         /\ cfg.Username # "" /\ cfg.Password # ""
  /\ (RelayPath /\ (cfg.Username = "" \/ cfg.Password = "")) =>
       \A i \in 1..Len(wire) :
         wire[i].cmd = "MAIL FROM" =>
           i > 1 /\ wire[i - 1].cmd \in {"EHLO", "HELO", "STARTTLS"}

C26_Witness ==
  /\ engine = "Send" /\ returned /\ err = Nil
  /\ cfg.Username = "" /\ cfg.Password = "pass"
  /\ \E i \in 2..Len(wire) :
       wire[i].cmd = "MAIL FROM" /\ wire[i - 1].cmd = "EHLO" /\ wire[i].ch = "tls"

\* The i-th command of the session is a STARTTLS the server accepted.
Upgraded(i) == wire[i].cmd = "STARTTLS" /\ wire[i].reply = "220"

\* C27: once STARTTLS was answered with 220 the next command is the hello
\* again, and it and every command after it (the AUTH exchange, MAIL FROM,
\* RCPT TO, DATA, QUIT) goes over the encrypted channel, as does the message;
\* in a session without an accepted upgrade every command, the credentials
\* included, and the message go over the plaintext channel.
C27_EncryptedAfterUpgrade ==
  /\ \A i \in 1..Len(wire) :
       Upgraded(i) =>
         /\ tp = "tls"
         /\ \A j \in (i + 1)..Len(wire) : wire[j].ch = "tls"
         /\ i < Len(wire) => wire[i + 1].cmd = "EHLO"
  /\ \A j \in 1..Len(wire) :
       wire[j].ch = "tls" => \E i \in 1..(j - 1) : Upgraded(i)
  /\ (\A i \in 1..Len(wire) : ~Upgraded(i)) => tp = "plain"

C27_Witness ==
  /\ engine = "Send" /\ returned /\ err = Nil
  /\ \E i \in 1..Len(wire) : Upgraded(i)
  /\ \E i \in 1..Len(wire) : wire[i].cmd = "LOGIN password" /\ wire[i].ch = "tls"
  /\ wire[Len(wire)].cmd = "QUIT" /\ wire[Len(wire)].ch = "tls"

\* The latest attempt ended in the signing module.
SigningFailed == AttemptReturned /\ lastRet # Nil /\ lastRet[1] = "DKIM signing"

\* C28: the message is signed only after DATA was answered with 354.  When
\* signing is configured and fails, the attempt returns the signing error
\* with the data phase open: DATA was the last command and was answered 354,
\* no message byte and no terminator was written, no QUIT was sent, and the
\* connection is closed; and with signing configured no message is ever
\* written without its signature.
C28_SigningFailureLeavesDataOpen ==
  RawClient =>
    /\ SigningFailed =>
         /\ AllSigningFieldsSet
         /\ lastRet[2] \in SignOutcomes \ {"ok"}
         /\ wire # <<>>
         /\ wire[Len(wire)].cmd = "DATA" /\ wire[Len(wire)].reply = "354"
         /\ msg = <<>> /\ ~acked
         /\ Sent("QUIT") = {}
         /\ conns[Len(conns)] = "closed"
    /\ msg # <<>> =>
         /\ \E i \in Sent("DATA") : wire[i].reply = "354"
         /\ AllSigningFieldsSet => SignatureHeaders = {1}

C28_Witness ==
  /\ engine = "Send" /\ returned
  /\ err = <<"DKIM signing", "no PEM block found">>
  /\ wire[Len(wire)].cmd = "DATA" /\ wire[Len(wire)].reply = "354"
  /\ msg = <<>> /\ conns = <<"closed">>

====
